---------------------------- MODULE Spec2Model ----------------------------
(***************************************************************************)
(* LoRaWAN Class A MAC engine of lorabasicsmodem                           *)
(* (lr1mac/src/lr1_stack_mac_layer.c) as a state machine.                  *)
(*                                                                         *)
(* The state is the lr1_stack_mac_t object (variable lr1_mac, one record   *)
(* field per C field the modelled functions touch), the radio planner's    *)
(* slot of the MAC hook (rp_task), the millisecond clock (now) and what    *)
(* the supervisor holds between calls (sup).  Every public function of the *)
(* MAC layer is an operator from the object before the call to the object  *)
(* after it; the actions apply these operators with inputs drawn from      *)
(* small sets.  The variable last records, for the most recent call, its   *)
(* name, its inputs, its return value and the object before the call.      *)
(*                                                                         *)
(* 32-bit frame counters are kept as a pair of 16-bit halves               *)
(* [hi |-> bits 31..16, lo |-> bits 15..0], so that arithmetic modulo 2^32 *)
(* is exact although the model checker's integers are 32-bit signed.       *)
(***************************************************************************)
EXTENDS Integers, Sequences, FiniteSets, TLC

VARIABLES lr1_mac, rp_task, now, sup, last

vars == <<lr1_mac, rp_task, now, sup, last>>

---------------------------------------------------------------------------
(* Bounds of the model (not program constants).                            *)

\* The clock advances in steps of TickMs up to MaxNow.
MaxNow == 1000

\* lr1_stack_mac_update is not called once fcnt_up has reached MaxFcntUp.
MaxFcntUp == 2

\* The supervisor starts at most MaxUplink uplinks.
MaxUplink == 2

\* lr1_stack_mac_join_request_build is not called once dev_nonce has reached
\* MaxDevNonce.
MaxDevNonce == 1

\* The downlinks SpecFcnt hands to fcnt_dwn_accept one after the other.
MaxDownlink == 3

---------------------------------------------------------------------------
(* Program constants.                                                      *)

\* lr1_stack_mac_layer.c:63
MAX_FCNT_GAP == 16384

\* lr1mac_defs.h (not part of the sources at hand): LoRaWAN 1.0.x values.
FHDROFFSET == 9
MICSIZE == 4
MIN_LORAWAN_PAYLOAD_SIZE == 12
PORTNWK == 0

\* MType values (LoRaWAN 1.0.x, MHDR bits 7..5).
JOIN_REQUEST == 0
JOIN_ACCEPT == 1
UNCONF_DATA_UP == 2
UNCONF_DATA_DOWN == 3
CONF_DATA_UP == 4
CONF_DATA_DOWN == 5
REJOIN_REQUEST == 6

LORAWANR1 == 0

\* Tick of the model's clock, in ms.
TickMs == 1000

---------------------------------------------------------------------------
(* Arithmetic helpers.                                                     *)

Pow2(n) == IF n = 0 THEN 1 ELSE
           IF n = 1 THEN 2 ELSE
           IF n = 2 THEN 4 ELSE
           IF n = 3 THEN 8 ELSE
           IF n = 4 THEN 16 ELSE
           IF n = 5 THEN 32 ELSE
           IF n = 6 THEN 64 ELSE
           IF n = 7 THEN 128 ELSE
           IF n = 8 THEN 256 ELSE
           IF n = 9 THEN 512 ELSE
           IF n = 10 THEN 1024 ELSE
           IF n = 11 THEN 2048 ELSE
           IF n = 12 THEN 4096 ELSE
           IF n = 13 THEN 8192 ELSE
           IF n = 14 THEN 16384 ELSE
           IF n = 15 THEN 32768 ELSE 65536

\* x >> n on non-negative integers.
Shr(x, n) == x \div Pow2(n)

\* Bit k of x (0 or 1).
Bit(x, k) == Shr(x, k) % 2

\* A 32-bit unsigned value as its two 16-bit halves.
U32(hi, lo) == [hi |-> hi, lo |-> lo]

\* The 32-bit value 0xFFFFFFFF ( ~0 ).
U32_MAX == U32(65535, 65535)

\* a < b on 32-bit unsigned values.
U32Less(a, b) == a.hi < b.hi \/ (a.hi = b.hi /\ a.lo < b.lo)

\* A C buffer is a function from the indexes written so far to bytes; a
\* byte never written holds its initial value 0.
Rd(buf, i) == IF i \in DOMAIN buf THEN buf[i] ELSE 0

Wr(buf, i, v) == [k \in (DOMAIN buf) \cup {i} |-> IF k = i THEN v ELSE buf[k]]

\* memcpy( &buf[at], src, Len(src) ) with src a sequence of bytes.
WrSeq(buf, at, src) ==
    [k \in (DOMAIN buf) \cup {at + j - 1 : j \in 1..Len(src)} |->
        IF k >= at /\ k < at + Len(src) THEN src[k - at + 1] ELSE buf[k]]

\* buf[at .. at+n-1] as a sequence.
RdSeq(buf, at, n) == [j \in 1..n |-> Rd(buf, at + j - 1)]

EmptyBuf == [k \in {} |-> 0]

---------------------------------------------------------------------------
(* Received frames.                                                        *)
(*                                                                         *)
(* A frame in the receive buffer is the record of its fields.  mic_ok and  *)
(* mic_fcnt say what its last four bytes are: the MIC the network computed *)
(* with its 32-bit FCntDown mic_fcnt (mic_ok), or bytes that are no valid  *)
(* MIC for any counter (~mic_ok).  frm is the FRMPayload in clear.  For a  *)
(* Join-Accept, hdr_addr is what bytes 1..4 read as before decryption and  *)
(* ja_* are the fields of the decrypted payload.                           *)

\* status_lorawan_t (lr1mac_defs.h).
OKLORAWAN == 0
ERRORLORAWAN == -1

DataDown(mtype, addr, ack, fcnt, fopts, has_port, fport, frm, mic_ok, mic_fcnt) ==
    [mtype |-> mtype, major |-> LORAWANR1, hdr_addr |-> addr,
     fctrl |-> ack * 32 + Len(fopts), fcnt |-> fcnt, fopts |-> fopts,
     fport |-> fport, frm |-> frm, mic_ok |-> mic_ok, mic_fcnt |-> mic_fcnt,
     size |-> 8 + Len(fopts) + (IF has_port THEN 1 + Len(frm) ELSE 0) + MICSIZE,
     ja_dev_addr |-> 0, ja_dl_settings |-> 0, ja_rx_delay |-> 0]

JoinAcc(hdr, addr, dl_settings, rx_delay, cflist, mic_ok) ==
    [mtype |-> JOIN_ACCEPT, major |-> LORAWANR1, hdr_addr |-> hdr,
     fctrl |-> 0, fcnt |-> 0, fopts |-> <<>>,
     fport |-> 0, frm |-> <<>>, mic_ok |-> mic_ok, mic_fcnt |-> U32(0, 0),
     size |-> 1 + 12 + (IF cflist THEN 16 ELSE 0) + MICSIZE,
     ja_dev_addr |-> addr, ja_dl_settings |-> dl_settings, ja_rx_delay |-> rx_delay]

\* The receive buffer before any reception.
NoFrame == DataDown(0, 0, 0, 0, <<>>, FALSE, 0, <<>>, FALSE, U32(0, 0))

---------------------------------------------------------------------------
(* lr1_stack_mac_init and lr1_stack_mac_session_init.                      *)

\* smtc_real_default_max_eirp_get( lr1_mac ) of the region (EU868).
smtc_real_default_max_eirp_get == 16

\* lr1_stack_mac_session_init with the downlink counter reset to 0 instead of
\* the sentinel ~0.
lr1_stack_mac_session_init_fcnt_zero(m, t) ==
    [m EXCEPT !.fcnt_dwn = U32(0, 0),
              !.fcnt_up = 0,
              !.retry_join_cpt = 0,
              !.adr_ack_cnt = 0,
              !.adr_ack_cnt_confirmed_frame = 0,
              !.tx_fopts_current_length = 0,
              !.tx_fopts_length = 0,
              !.tx_fopts_lengthsticky = 0,
              !.nwk_ans_size = 0,
              !.nwk_payload_size = 0,
              !.nwk_payload_index = 0,
              !.max_eirp_dbm = smtc_real_default_max_eirp_get,
              !.uplink_dwell_time = 1,
              !.downlink_dwell_time = 1,
              !.max_duty_cycle_index = 0,
              !.tx_duty_cycle_time_off_ms = 0,
              !.tx_duty_cycle_timestamp_ms = t]

\* The fields lr1_stack_mac_session_init assigns; t is bsp_rtc_get_time_ms().
lr1_stack_mac_session_init(m, t) ==
    [m EXCEPT !.fcnt_dwn = U32_MAX,
              !.fcnt_up = 0,
              !.retry_join_cpt = 0,
              !.adr_ack_cnt = 0,
              !.adr_ack_cnt_confirmed_frame = 0,
              !.tx_fopts_current_length = 0,
              !.tx_fopts_length = 0,
              !.tx_fopts_lengthsticky = 0,
              !.nwk_ans_size = 0,
              !.nwk_payload_size = 0,
              !.nwk_payload_index = 0,
              !.max_eirp_dbm = smtc_real_default_max_eirp_get,
              !.uplink_dwell_time = 1,
              !.downlink_dwell_time = 1,
              !.max_duty_cycle_index = 0,
              !.tx_duty_cycle_time_off_ms = 0,
              !.tx_duty_cycle_timestamp_ms = t]

\* The object as the caller hands it to lr1_stack_mac_init: static storage,
\* all zero, with the ADR and RX defaults the caller sets from the region.
ZeroMac ==
    [radio_process_state |-> "IDLE", join_status |-> "NOT_JOINED",
     planner_status |-> "NONE", type_of_ans_to_send |-> "NOFRAME_TOSEND",
     available_app_packet |-> "NO_LORA_RXPACKET_AVAILABLE",
     tx_major_bits |-> 0, nb_trans |-> 0, nb_trans_cpt |-> 0,
     next_time_to_join_seconds |-> 0, retry_join_cpt |-> 0,
     fcnt_dwn |-> U32(0, 0), fcnt_up |-> 0,
     adr_ack_cnt |-> 0, adr_ack_cnt_confirmed_frame |-> 0,
     adr_ack_req |-> 0, adr_enable |-> 1,
     tx_fopts_current_length |-> 0, tx_fopts_length |-> 0,
     tx_fopts_lengthsticky |-> 0,
     tx_fopts_current_data |-> EmptyBuf, tx_fopts_data |-> EmptyBuf,
     tx_fopts_datasticky |-> EmptyBuf,
     nwk_ans |-> EmptyBuf, nwk_ans_size |-> 0,
     nwk_payload |-> EmptyBuf, nwk_payload_size |-> 0, nwk_payload_index |-> 0,
     max_duty_cycle_index |-> 0,
     tx_duty_cycle_time_off_ms |-> 0, tx_duty_cycle_timestamp_ms |-> 0,
     tx_mtype |-> JOIN_REQUEST, tx_fport |-> 0, tx_fctrl |-> 0,
     tx_ack_bit |-> 0, rx_ack_bit |-> 0,
     tx_payload |-> EmptyBuf, tx_payload_size |-> 0, app_payload_size |-> 0,
     tx_crypt |-> [at |-> 0, size |-> 0, key |-> "none", fcnt |-> 0],
     rx_payload |-> NoFrame, rx_payload_size |-> 0,
     rx_mtype |-> 0, rx_major |-> 0, rx_fctrl |-> 0, rx_fopts_length |-> 0,
     rx_fopts |-> EmptyBuf, rx_fport |-> 0, rx_payload_empty |-> 0,
     isr_radio_timestamp |-> 0,
     rx_offset_ms |-> 0, rx_window_symb |-> 0, rx_timeout_ms |-> 0,
     first_join_timestamp |-> 0, tx_sf |-> 7, dev_nonce |-> 0,
     adr_ack_limit |-> 0, adr_ack_delay |-> 0,
     tx_power |-> 0, rx2_frequency |-> 0, max_eirp_dbm |-> 0,
     uplink_dwell_time |-> 0, downlink_dwell_time |-> 0,
     snr_pkt_in_db |-> 0, unwrapped_channel_mask |-> 0,
     channel |-> [i \in 0..15 |-> [tx_frequency |-> 0, rx1_frequency |-> 0,
                                   min_dr |-> 0, max_dr |-> 0, enabled |-> FALSE]],
     tx_data_rate |-> 0, tx_data_rate_adr |-> 0,
     dev_addr |-> 0, rx1_dr_offset |-> 0, rx2_data_rate |-> 0, rx1_delay_s |-> 1]

lr1_stack_mac_init(m, t) ==
    lr1_stack_mac_session_init([m EXCEPT !.tx_major_bits = LORAWANR1,
                           !.radio_process_state = "IDLE",
                           !.next_time_to_join_seconds = 0,
                           !.join_status = "NOT_JOINED",
                           !.type_of_ans_to_send = "NOFRAME_TOSEND",
                           !.nb_trans = 1,
                           !.available_app_packet = "NO_LORA_RXPACKET_AVAILABLE"], t)

---------------------------------------------------------------------------
(* lr1_stack_mac_join_accept.                                              *)

\* lr1_stack_mac_join_accept that takes the RxDelay byte as it is when it is
\* above 15.
lr1_stack_mac_join_accept_delay_unclamped(m, t) ==
    LET f == m.rx_payload
        d0 == f.ja_rx_delay
        d1 == IF d0 = 0 THEN 1 ELSE d0
    IN lr1_stack_mac_session_init([m EXCEPT !.dev_addr = f.ja_dev_addr,
                              !.rx1_dr_offset = Shr(f.ja_dl_settings % 128, 4),
                              !.rx2_data_rate = f.ja_dl_settings % 16,
                              !.rx1_delay_s = d1,
                              !.join_status = "JOINED"], t)

\* Reads the Join-Accept that lr1_stack_mac_rx_frame_decode decrypted in the
\* receive buffer; t is bsp_rtc_get_time_ms() as read by session_init.
lr1_stack_mac_join_accept(m, t) ==
    LET f == m.rx_payload
        d0 == f.ja_rx_delay
        d1 == IF d0 = 0 THEN 1 ELSE d0
        d2 == IF d1 > 15 THEN 15 ELSE d1
    IN lr1_stack_mac_session_init([m EXCEPT !.dev_addr = f.ja_dev_addr,
                              !.rx1_dr_offset = Shr(f.ja_dl_settings % 128, 4),
                              !.rx2_data_rate = f.ja_dl_settings % 16,
                              !.rx1_delay_s = d2,
                              !.join_status = "JOINED"], t)

---------------------------------------------------------------------------
(* Downlink frame counter.                                                 *)

\* fcnt_dwn_accept with the roll-over taken at a gap of MAX_FCNT_GAP or more
\* instead of more than MAX_FCNT_GAP.
fcnt_dwn_accept_gap_inclusive(fcnt_dwn_tmp, fcnt_lorawan) ==
    IF fcnt_lorawan = U32_MAX
    THEN [status |-> OKLORAWAN, fcnt |-> U32(0, fcnt_dwn_tmp)]
    ELSE IF fcnt_dwn_tmp > fcnt_lorawan.lo
    THEN [status |-> OKLORAWAN, fcnt |-> U32(fcnt_lorawan.hi, fcnt_dwn_tmp)]
    ELSE IF fcnt_lorawan.lo - fcnt_dwn_tmp >= MAX_FCNT_GAP
    THEN [status |-> OKLORAWAN,
          fcnt |-> U32((fcnt_lorawan.hi + 1) % 65536, fcnt_dwn_tmp)]
    ELSE [status |-> ERRORLORAWAN, fcnt |-> fcnt_lorawan]

\* fcnt_dwn_accept with the received counter compared >= to the stored low
\* half, so that the counter of the last accepted downlink is accepted again.
fcnt_dwn_accept_same_counter(fcnt_dwn_tmp, fcnt_lorawan) ==
    IF fcnt_lorawan = U32_MAX
    THEN [status |-> OKLORAWAN, fcnt |-> U32(0, fcnt_dwn_tmp)]
    ELSE IF fcnt_dwn_tmp >= fcnt_lorawan.lo
    THEN [status |-> OKLORAWAN, fcnt |-> U32(fcnt_lorawan.hi, fcnt_dwn_tmp)]
    ELSE IF fcnt_lorawan.lo - fcnt_dwn_tmp > MAX_FCNT_GAP
    THEN [status |-> OKLORAWAN,
          fcnt |-> U32((fcnt_lorawan.hi + 1) % 65536, fcnt_dwn_tmp)]
    ELSE [status |-> ERRORLORAWAN, fcnt |-> fcnt_lorawan]

\* fcnt_dwn_accept( fcnt_dwn_tmp, &fcnt_lorawan ): the returned status and
\* the value left in *fcnt_lorawan.  fcnt_dwn_msb is the high half times
\* 2^16, so msb + tmp sets the low half and msb + (1 << 16) + tmp also adds
\* one to the high half, modulo 2^32.
fcnt_dwn_accept(fcnt_dwn_tmp, fcnt_lorawan) ==
    LET fcnt_dwn_lsb == fcnt_lorawan.lo
        fcnt_dwn_msb == fcnt_lorawan.hi
    IN IF fcnt_dwn_tmp > fcnt_dwn_lsb \/ fcnt_lorawan = U32_MAX
       THEN IF fcnt_lorawan = U32_MAX
            THEN [status |-> OKLORAWAN, fcnt |-> U32(0, fcnt_dwn_tmp)]
            ELSE [status |-> OKLORAWAN, fcnt |-> U32(fcnt_dwn_msb, fcnt_dwn_tmp)]
       ELSE IF fcnt_dwn_lsb - fcnt_dwn_tmp > MAX_FCNT_GAP
            THEN [status |-> OKLORAWAN,
                  fcnt |-> U32((fcnt_dwn_msb + 1) % 65536, fcnt_dwn_tmp)]
            ELSE [status |-> ERRORLORAWAN, fcnt |-> fcnt_lorawan]

---------------------------------------------------------------------------
(* lr1_stack_mac_rx_frame_decode and its helpers.                          *)

rx_payload_size_check(m) ==
    IF m.rx_payload_size < MIN_LORAWAN_PAYLOAD_SIZE THEN ERRORLORAWAN ELSE OKLORAWAN

\* The object after rx_mhdr_extract and the status it returns.
rx_mhdr_extract(m) ==
    LET mt == m.rx_payload.mtype
    IN [status |-> IF mt \in {JOIN_REQUEST, UNCONF_DATA_UP, CONF_DATA_UP, REJOIN_REQUEST}
                   THEN ERRORLORAWAN ELSE OKLORAWAN,
        m |-> [m EXCEPT !.rx_mtype = mt,
                        !.rx_major = m.rx_payload.major,
                        !.tx_ack_bit = IF mt = CONF_DATA_DOWN THEN 1 ELSE 0]]

\* The object after rx_fhdr_extract, the status it returns and *fcnt_dwn_tmp.
rx_fhdr_extract(m, dev_addr) ==
    LET f == m.rx_payload
        len == f.fctrl % 16
        full == m.rx_payload_size > 8 + MICSIZE + len
    IN [status |-> IF f.hdr_addr = dev_addr THEN OKLORAWAN ELSE ERRORLORAWAN,
        fcnt_dwn_tmp |-> f.fcnt,
        m |-> [m EXCEPT !.rx_fctrl = f.fctrl,
                        !.rx_fopts_length = len,
                        !.rx_fopts = WrSeq(@, 0, f.fopts),
                        !.rx_fport = IF full THEN f.fport ELSE @,
                        !.rx_payload_empty = IF full THEN 0 ELSE 1]]

\* check_mic( rx_payload, size, nwk_skey, dev_addr, fcnt, mic_in ) of crypto.c:
\* the four bytes after the first `size` bytes are the frame's MIC only when
\* size is the frame's length minus MICSIZE, and a MIC verifies only with
\* the 32-bit counter it was computed with.
check_mic(f, size, fcnt) ==
    IF f.mic_ok /\ size + MICSIZE = f.size /\ f.mic_fcnt = fcnt
    THEN OKLORAWAN ELSE ERRORLORAWAN

\* check_join_mic( rx_payload, size, app_key, mic_in ) of crypto.c.
check_join_mic(f, size) ==
    IF f.mic_ok /\ size + MICSIZE = f.size THEN OKLORAWAN ELSE ERRORLORAWAN

\* The counters with the retransmission counter left alone when the network
\* acknowledges a confirmed uplink.
rx_frame_accepted_counters_ack_keeps_nb_trans(m) ==
    LET ack == Bit(m.rx_fctrl, 5) = 1
    IN [m EXCEPT
          !.adr_ack_cnt = 0,
          !.adr_ack_cnt_confirmed_frame = 0,
          !.tx_fopts_lengthsticky = 0,
          !.nb_trans_cpt = IF m.tx_mtype # CONF_DATA_UP THEN 1 ELSE @,
          !.rx_ack_bit = IF ack /\ m.tx_mtype = CONF_DATA_UP THEN 1 ELSE @]

\* rx_frame_accepted_counters with the sticky answers kept.
rx_frame_accepted_counters_keeps_sticky(m) ==
    LET ack == Bit(m.rx_fctrl, 5) = 1
    IN [m EXCEPT
          !.adr_ack_cnt = 0,
          !.adr_ack_cnt_confirmed_frame = 0,
          !.nb_trans_cpt = IF ~(~ack /\ m.tx_mtype = CONF_DATA_UP) THEN 1 ELSE @,
          !.rx_ack_bit = IF ack /\ m.tx_mtype = CONF_DATA_UP THEN 1 ELSE @]

\* The counters a data frame with a valid MIC resets: the ADR counters, the
\* sticky FOpts length, the retransmission counter and the ACK flag.
rx_frame_accepted_counters(m) ==
    LET ack == Bit(m.rx_fctrl, 5) = 1
    IN [m EXCEPT
          !.adr_ack_cnt = 0,
          !.adr_ack_cnt_confirmed_frame = 0,
          !.tx_fopts_lengthsticky = 0,
          !.nb_trans_cpt = IF ~(~ack /\ m.tx_mtype = CONF_DATA_UP) THEN 1 ELSE @,
          !.rx_ack_bit = IF ack /\ m.tx_mtype = CONF_DATA_UP THEN 1 ELSE @]

\* The part of lr1_stack_mac_rx_frame_decode that runs once the MIC of a data
\* frame has been verified (status == OKLORAWAN after check_mic): the object
\* after it and the returned rx_packet_type.  payload_decrypt with the
\* counter the MIC verified with yields the FRMPayload in clear.
rx_frame_accepted(m) ==
    LET f == m.rx_payload
        m1 == rx_frame_accepted_counters(m)
        psz == (m.rx_payload_size - FHDROFFSET - m.rx_fopts_length) % 256
        fopts_copy == [m1 EXCEPT !.nwk_payload =
                                     WrSeq(@, 0, RdSeq(m.rx_fopts, 0, m.rx_fopts_length)),
                                 !.nwk_payload_size = m.rx_fopts_length]
    IN IF m.rx_payload_empty = 0
       THEN LET m2 == [m1 EXCEPT !.rx_payload_size = psz]
            IN IF m.rx_fport = 0
               THEN IF m.rx_fopts_length = 0
                    THEN [ret |-> "NWKRXPACKET",
                          m |-> [m2 EXCEPT !.nwk_payload = WrSeq(@, 0, f.frm),
                                           !.nwk_payload_size = psz]]
                    ELSE [ret |-> "NO_MORE_VALID_RX_PACKET", m |-> m2]
               ELSE IF m.rx_fopts_length # 0
                    THEN [ret |-> "USERRX_FOPTSPACKET",
                          m |-> [fopts_copy EXCEPT
                                   !.rx_payload_size = psz,
                                   !.available_app_packet = "LORA_RX_PACKET_AVAILABLE"]]
                    ELSE [ret |-> "NO_MORE_VALID_RX_PACKET",
                          m |-> [m2 EXCEPT
                                   !.available_app_packet = "LORA_RX_PACKET_AVAILABLE"]]
       ELSE IF m.rx_fopts_length # 0
            THEN [ret |-> "USERRX_FOPTSPACKET", m |-> fopts_copy]
            ELSE [ret |-> "NO_MORE_VALID_RX_PACKET", m |-> m1]

\* lr1_stack_mac_rx_frame_decode: the object after the call and the returned
\* rx_packet_type.  rx_payload_size is a uint8_t.
lr1_stack_mac_rx_frame_decode(m) ==
    LET f == m.rx_payload
        h == rx_mhdr_extract(m)
        st1 == rx_payload_size_check(m) + h.status
        m1 == h.m
    IN IF m1.rx_mtype = JOIN_ACCEPT
       THEN LET sz == (m1.rx_payload_size - MICSIZE) % 256
                st2 == st1 + check_join_mic(f, sz)
            IN [ret |-> IF st2 = OKLORAWAN THEN "JOIN_ACCEPT_PACKET"
                        ELSE "NO_MORE_VALID_RX_PACKET",
                m |-> [m1 EXCEPT !.rx_payload_size = sz]]
       ELSE LET fh == rx_fhdr_extract(m1, m1.dev_addr)
                st2 == st1 + fh.status
                m2 == fh.m
                acc == fcnt_dwn_accept(fh.fcnt_dwn_tmp, m2.fcnt_dwn)
                st3 == IF st2 = OKLORAWAN THEN acc.status ELSE st2
                m3 == IF st2 = OKLORAWAN THEN [m2 EXCEPT !.fcnt_dwn = acc.fcnt] ELSE m2
                sz == (m3.rx_payload_size - MICSIZE) % 256
                st4 == IF st3 = OKLORAWAN
                       THEN st3 + check_mic(f, sz, m3.fcnt_dwn) ELSE st3
                m4 == IF st3 = OKLORAWAN THEN [m3 EXCEPT !.rx_payload_size = sz] ELSE m3
            IN IF st4 = OKLORAWAN
               THEN rx_frame_accepted(m4)
               ELSE [ret |-> "NO_MORE_VALID_RX_PACKET", m |-> m4]

---------------------------------------------------------------------------
(* lr1_stack_mac_rp_callback.                                              *)

\* lr1_stack_mac_downlink_check_under_it: the returned status and the object
\* after it.
lr1_stack_mac_downlink_check_under_it(m) ==
    LET f == m.rx_payload
        st1 == IF f.mtype \in {JOIN_REQUEST, UNCONF_DATA_UP, CONF_DATA_UP, REJOIN_REQUEST}
               THEN ERRORLORAWAN ELSE OKLORAWAN
        st2 == IF m.join_status = "JOINED" /\ f.hdr_addr # m.dev_addr
               THEN st1 + ERRORLORAWAN ELSE st1
    IN [status |-> st2,
        m |-> IF m.join_status = "JOINED" /\ st2 # OKLORAWAN
              THEN [m EXCEPT !.rx_payload_size = 0] ELSE m]

\* The first switch with a rejected packet left as it is: planner_status
\* stays RX_PACKET when lr1_stack_mac_downlink_check_under_it fails.
rp_callback_planner_status_keeps_rejected(m, status, tcurrent_ms, f, t) ==
    LET m0 == [m EXCEPT !.planner_status = status]
        rx == [m0 EXCEPT !.rx_payload = f, !.rx_payload_size = f.size % 256]
        chk == lr1_stack_mac_downlink_check_under_it(rx)
    IN [m |-> IF status = "RX_PACKET" THEN chk.m ELSE m0,
        tcurrent_ms |-> IF status \in {"TX_DONE", "RX_TIMEOUT"} THEN tcurrent_ms
                        ELSE IF status = "RX_PACKET"
                             THEN IF chk.status # OKLORAWAN THEN t ELSE tcurrent_ms
                             ELSE t]

\* The first switch of lr1_stack_mac_rp_callback.  status and tcurrent_ms are
\* what rp_get_status returns, f is the frame the planner left in rx_payload
\* (read on RP_STATUS_RX_PACKET only), t is bsp_rtc_get_time_ms().  The
\* result is the object and tcurrent_ms after the switch.
rp_callback_planner_status(m, status, tcurrent_ms, f, t) ==
    LET m0 == [m EXCEPT !.planner_status = status]
        rx == [m0 EXCEPT !.rx_payload = f, !.rx_payload_size = f.size % 256]
        chk == lr1_stack_mac_downlink_check_under_it(rx)
    IN [m |-> IF status = "RX_PACKET"
              THEN IF chk.status # OKLORAWAN
                   THEN [chk.m EXCEPT !.planner_status = "RX_TIMEOUT"]
                   ELSE chk.m
              ELSE m0,
        tcurrent_ms |-> IF status \in {"TX_DONE", "RX_TIMEOUT"} THEN tcurrent_ms
                        ELSE IF status = "RX_PACKET"
                             THEN IF chk.status # OKLORAWAN THEN t ELSE tcurrent_ms
                             ELSE t]

\* The second switch with the second receive window left out: TXFINISHED
\* goes back to IDLE.
rp_callback_radio_process_state_skip_rx2(m, tcurrent_ms) ==
    IF m.radio_process_state = "TXON"
    THEN [issue |-> FALSE,
          m |-> [m EXCEPT !.isr_radio_timestamp = tcurrent_ms,
                          !.radio_process_state = "TXFINISHED"]]
    ELSE IF m.radio_process_state \in {"TXFINISHED", "RX1FINISHED"}
    THEN [issue |-> FALSE, m |-> [m EXCEPT !.radio_process_state = "IDLE"]]
    ELSE [issue |-> TRUE, m |-> m]

\* The second switch of lr1_stack_mac_rp_callback: the object after it and
\* whether bsp_mcu_handle_lr1mac_issue was called.
rp_callback_radio_process_state(m, tcurrent_ms) ==
    IF m.radio_process_state = "TXON"
    THEN [issue |-> FALSE,
          m |-> [m EXCEPT !.isr_radio_timestamp = tcurrent_ms,
                          !.radio_process_state = "TXFINISHED"]]
    ELSE IF m.radio_process_state = "TXFINISHED"
    THEN [issue |-> FALSE, m |-> [m EXCEPT !.radio_process_state = "RX1FINISHED"]]
    ELSE IF m.radio_process_state = "RX1FINISHED"
    THEN [issue |-> FALSE, m |-> [m EXCEPT !.radio_process_state = "IDLE"]]
    ELSE [issue |-> TRUE, m |-> m]

\* lr1_stack_mac_rp_callback: the object after the call and whether
\* bsp_mcu_handle_lr1mac_issue was called.
lr1_stack_mac_rp_callback(m, status, tcurrent_ms, f, t) ==
    LET p == rp_callback_planner_status(m, status, tcurrent_ms, f, t)
    IN rp_callback_radio_process_state(p.m, p.tcurrent_ms)

---------------------------------------------------------------------------
(* lr1_stack_mac_tx_radio_start.                                           *)

\* lr1_stack_mac_tx_radio_start with the uplink counted before the planner
\* is asked: a refused task is counted too.
lr1_stack_mac_tx_radio_start_counts_refused(m, enqueued) ==
    LET m1 == IF m.tx_mtype = CONF_DATA_UP
              THEN [m EXCEPT !.adr_ack_cnt_confirmed_frame = @ + 1]
              ELSE [m EXCEPT !.adr_ack_cnt = @ + 1]
    IN IF enqueued THEN [m1 EXCEPT !.radio_process_state = "TXON"] ELSE m1

\* enqueued is whether rp_task_enqueue returned RP_HOOK_STATUS_OK.  The radio
\* parameters handed to the planner are not part of the model.
lr1_stack_mac_tx_radio_start(m, enqueued) ==
    IF enqueued
    THEN IF m.tx_mtype = CONF_DATA_UP
         THEN [m EXCEPT !.radio_process_state = "TXON",
                        !.adr_ack_cnt_confirmed_frame = @ + 1]
         ELSE [m EXCEPT !.radio_process_state = "TXON",
                        !.adr_ack_cnt = @ + 1]
    ELSE m

---------------------------------------------------------------------------
(* Receive windows: compute_rx_window_parameters,                          *)
(* lr1_stack_mac_rx_timer_configure, lr1_stack_mac_rx_radio_start.         *)

\* smtc_bsp_options.h (not part of the sources at hand).
BSP_CRYSTAL_ERROR == 10
BSP_BOARD_DELAY_RX_SETTING_MS == 8

\* The least integer >= n / d, for d > 0.
CeilDiv(n, d) == -((-n) \div d)

MaxOf(a, b) == IF a > b THEN a ELSE b
MinOf(a, b) == IF a < b THEN a ELSE b

\* compute_rx_window_parameters without the MAX against min_rx_symbols: the
\* width is what the clock error alone asks for.
compute_rx_window_parameters_no_minimum(m, sf, bw_temp, clock_accuracy, rx_delay_ms, board_delay_ms) ==
    LET rx_error_ms == (clock_accuracy * rx_delay_ms) \div 1000
        min_rx_symbols == 6
        rx_window_symb ==
            ((2 * min_rx_symbols - 8) + Shr(2 * rx_error_ms * bw_temp, sf) + 1) % 65536
    IN [m EXCEPT
          !.rx_offset_ms =
              -CeilDiv((8 - rx_window_symb) * Pow2(sf) - 2 * bw_temp * board_delay_ms,
                       2 * bw_temp),
          !.rx_window_symb = rx_window_symb,
          !.rx_timeout_ms = CeilDiv(rx_window_symb * Pow2(sf), bw_temp)]

\* compute_rx_window_parameters for LoRa: tsymbol = 2^sf / bw_temp ms, so
\*   4 * tsymbol - rx_window_symb * tsymbol / 2 - board_delay_ms
\*     = ((8 - rx_window_symb) * 2^sf - 2 * bw_temp * board_delay_ms) / (2 * bw_temp).
compute_rx_window_parameters(m, sf, bw_temp, clock_accuracy, rx_delay_ms, board_delay_ms) ==
    LET rx_error_ms == (clock_accuracy * rx_delay_ms) \div 1000
        min_rx_symbols == 6
        rx_window_symb ==
            MaxOf((2 * min_rx_symbols - 8) + Shr(2 * rx_error_ms * bw_temp, sf) + 1,
                  min_rx_symbols) % 65536
    IN [m EXCEPT
          !.rx_offset_ms =
              -CeilDiv((8 - rx_window_symb) * Pow2(sf) - 2 * bw_temp * board_delay_ms,
                       2 * bw_temp),
          !.rx_window_symb = rx_window_symb,
          !.rx_timeout_ms = CeilDiv(rx_window_symb * Pow2(sf), bw_temp)]

\* smtc_real_rx_config_set (region table, not part of the sources at hand):
\* the spreading factor and the bandwidth in kHz of a window.  RX1 follows
\* the uplink spreading factor, RX2 is the region's default SF12.
smtc_real_rx_config_set(m, type) ==
    IF type = "RX1" THEN [sf |-> m.tx_sf, bw |-> 125] ELSE [sf |-> 12, bw |-> 125]

\* lr1_stack_mac_rx_timer_configure.  tcurrent_ms is bsp_rtc_get_time_ms()
\* as read on entry and t is bsp_rtc_get_time_ms() as read again for the
\* start time of the task.  All times of the model are below 2^30, so the
\* uint32_t sum talarm_ms and the int32_t cast of talarm_ms - rx_offset_ms
\* equal the integers they denote.  The modulation of both windows is LoRa.
\* The result is the object after the call and the task
\* lr1_stack_mac_rx_radio_start hands to rp_task_enqueue, if any (a BUSY
\* planner drops it and nothing else changes).
lr1_stack_mac_rx_timer_configure(m, type, tcurrent_ms, t) ==
    LET cfg == smtc_real_rx_config_set(m, type)
        delay_ms == IF type = "RX1" THEN m.rx1_delay_s * 1000
                    ELSE (m.rx1_delay_s * 1000) + 1000
        m1 == compute_rx_window_parameters(m, cfg.sf, cfg.bw, BSP_CRYSTAL_ERROR,
                                           delay_ms, BSP_BOARD_DELAY_RX_SETTING_MS)
        talarm_ms == delay_ms + m1.isr_radio_timestamp - tcurrent_ms
    IN IF talarm_ms - m1.rx_offset_ms < 0
       THEN [task |-> [type |-> "NONE", state |-> "NONE", start_time_ms |-> 0],
             m |-> [m1 EXCEPT !.radio_process_state =
                                  IF type = "RX1" THEN "RX1FINISHED" ELSE "IDLE"]]
       ELSE [task |-> [type |-> "RX", state |-> "SCHEDULE",
                       start_time_ms |-> t + talarm_ms - m1.rx_offset_ms],
             m |-> m1]

---------------------------------------------------------------------------
(* Uplink frames: lr1_stack_mac_tx_frame_build,                            *)
(* lr1_stack_mac_tx_frame_encrypt.                                         *)

mac_header_set(m) ==
    [m EXCEPT !.tx_payload = Wr(@, 0, ((m.tx_mtype % 8) * 32 + (m.tx_major_bits % 4)) % 256)]

frame_header_set(m) ==
    LET b1 == Wr(m.tx_payload, 1, m.dev_addr % 256)
        b2 == Wr(b1, 2, Shr(m.dev_addr, 8) % 256)
        b3 == Wr(b2, 3, Shr(m.dev_addr, 16) % 256)
        b4 == Wr(b3, 4, (m.dev_addr \div 16777216) % 256)
        b5 == Wr(b4, 5, m.tx_fctrl)
        b6 == Wr(b5, 6, m.fcnt_up % 256)
        b7 == Wr(b6, 7, Shr(m.fcnt_up, 8) % 256)
        b8 == WrSeq(b7, 8, RdSeq(m.tx_fopts_current_data, 0, m.tx_fopts_current_length))
    IN [m EXCEPT !.tx_payload = Wr(b8, 8 + m.tx_fopts_current_length, m.tx_fport)]

lr1_stack_mac_tx_frame_build(m) ==
    LET m1 == [m EXCEPT !.tx_fctrl = (m.adr_enable * 128 + m.adr_ack_req * 64 +
                                      m.tx_ack_bit * 32 +
                                      (m.tx_fopts_current_length % 16)) % 256,
                        !.tx_ack_bit = 0,
                        !.rx_ack_bit = 0]
        m2 == frame_header_set(mac_header_set(m1))
    IN [m2 EXCEPT !.tx_payload_size =
                      (m.app_payload_size + FHDROFFSET + m.tx_fopts_current_length) % 256]

\* lora_crypto_payload_encrypt and lora_crypto_add_mic (crypto.c) are kept as
\* the arguments they are called with: the encrypted range of tx_payload, the
\* key and the frame counter.
lr1_stack_mac_tx_frame_encrypt(m) ==
    [m EXCEPT !.tx_crypt = [at |-> FHDROFFSET + m.tx_fopts_current_length,
                            size |-> m.app_payload_size,
                            key |-> IF m.tx_fport = PORTNWK THEN "nwk_skey" ELSE "app_skey",
                            fcnt |-> m.fcnt_up],
              !.tx_payload_size = (m.tx_payload_size + 4) % 256]

\* lr1_stack_mac_join_request_build.  AppEUI and DevEUI are eight zero bytes
\* each; join_compute_mic (crypto.c) leaves four bytes after the request.
lr1_stack_mac_join_request_build(m) ==
    LET m1 == mac_header_set([m EXCEPT !.dev_nonce = (@ + 1) % 65536,
                                       !.tx_mtype = JOIN_REQUEST,
                                       !.nb_trans_cpt = 1,
                                       !.nb_trans = 1])
        eui == [i \in 1..16 |-> 0]
    IN [m1 EXCEPT !.tx_payload = Wr(Wr(WrSeq(@, 1, eui), 17, m1.dev_nonce % 256),
                                    18, Shr(m1.dev_nonce, 8)),
                  !.tx_payload_size = 19 + 4]

\* lr1mac_core_payload_send (lr1mac_core.c, not part of the sources at
\* hand): a new payload of one byte on port 1 is copied behind the header,
\* nb_trans_cpt starts at nb_trans, and the frame is built and encrypted.
lr1mac_core_payload_send(m, mtype) ==
    LET m1 == [m EXCEPT !.tx_mtype = mtype,
                        !.tx_fport = 1,
                        !.app_payload_size = 1,
                        !.nb_trans_cpt = m.nb_trans,
                        !.tx_payload = Wr(@, FHDROFFSET + m.tx_fopts_current_length, 170)]
    IN lr1_stack_mac_tx_frame_encrypt(lr1_stack_mac_tx_frame_build(m1))

---------------------------------------------------------------------------
(* lr1_stack_mac_update and lr1_stack_mac_cmd_ans_cut.                     *)

\* lr1mac_defs.h and the region tables (not part of the sources at hand).
ADR_LIMIT_CONF_UP == 4
NO_RX_PACKET_CNT == 2400
smtc_real_adr_ack_limit_get == 64
smtc_real_adr_ack_delay_get == 32
smtc_real_min_dr_channel_get == 0
smtc_real_get_join_sf5_toa_in_ms == 21

\* Size of the answer to each MAC command, by command identifier.
lr1mac_cmd_mac_ans_size(cid) ==
    IF cid = 2 THEN 1
    ELSE IF cid = 3 THEN 2
    ELSE IF cid = 4 THEN 1
    ELSE IF cid = 5 THEN 2
    ELSE IF cid = 6 THEN 3
    ELSE IF cid = 7 THEN 2
    ELSE IF cid = 8 THEN 1
    ELSE IF cid = 9 THEN 1
    ELSE IF cid = 10 THEN 2
    ELSE 0

\* Largest MAC payload of a data rate, and the size test built on it.
smtc_real_max_payload_size_get(dr) ==
    IF dr <= 2 THEN 51 ELSE IF dr = 3 THEN 115 ELSE 242

smtc_real_is_valid_size(dr, size) ==
    IF size <= smtc_real_max_payload_size_get(dr) THEN OKLORAWAN ELSE ERRORLORAWAN

\* One step down of the ADR data rate, not below the lowest of the channels.
smtc_real_dr_decrement(m) ==
    IF m.tx_data_rate_adr > smtc_real_min_dr_channel_get
    THEN [m EXCEPT !.tx_data_rate_adr = @ - 1]
    ELSE m

\* The data rate of the next uplink, in network-controlled mode.
smtc_real_next_dr_get(m) == [m EXCEPT !.tx_data_rate = m.tx_data_rate_adr]

\* The loop of lr1_stack_mac_cmd_ans_cut from the positions p_tmp and p.  An
\* identifier whose answer size is 0 would keep the C loop from advancing;
\* the answers cut here are those the parsers wrote.
RECURSIVE cmd_ans_cut_loop(_, _, _, _, _)
cmd_ans_cut_loop(nwk_ans, nwk_ans_size_in, max_allowed_size, p_tmp, p) ==
    IF p_tmp < MinOf(nwk_ans_size_in, max_allowed_size)
    THEN LET step == lr1mac_cmd_mac_ans_size(Rd(nwk_ans, p_tmp))
             nxt == p_tmp + step
         IN IF step = 0 THEN p
            ELSE IF nxt <= max_allowed_size
                 THEN cmd_ans_cut_loop(nwk_ans, nwk_ans_size_in, max_allowed_size, nxt, nxt)
                 ELSE p
    ELSE p

\* lr1_stack_mac_cmd_ans_cut that cuts at the size allowed, wherever that
\* falls in the answers.
lr1_stack_mac_cmd_ans_cut_at_size(nwk_ans, nwk_ans_size_in, max_allowed_size) ==
    MinOf(nwk_ans_size_in, max_allowed_size)

lr1_stack_mac_cmd_ans_cut(nwk_ans, nwk_ans_size_in, max_allowed_size) ==
    cmd_ans_cut_loop(nwk_ans, nwk_ans_size_in, max_allowed_size, 0, 0) % 256

\* update_join with the second period ending ten hours after the first
\* Join-Request instead of eleven.
update_join_ten_hours_from_start(m, current_time_s) ==
    LET toa == smtc_real_get_join_sf5_toa_in_ms * Pow2(m.tx_sf - 5)
    IN IF m.join_status = "NOT_JOINED"
       THEN [m EXCEPT
               !.retry_join_cpt = @ + 1,
               !.next_time_to_join_seconds =
                   IF current_time_s < m.first_join_timestamp + 3600
                   THEN current_time_s + toa \div 10
                   ELSE IF current_time_s < m.first_join_timestamp + 36000
                        THEN current_time_s + toa
                        ELSE current_time_s + toa * 10]
       ELSE smtc_real_next_dr_get(m)

\* The join back-off of lr1_stack_mac_update; current_time_s is
\* bsp_rtc_get_time_s().
update_join(m, current_time_s) ==
    LET toa == smtc_real_get_join_sf5_toa_in_ms * Pow2(m.tx_sf - 5)
    IN IF m.join_status = "NOT_JOINED"
       THEN [m EXCEPT
               !.retry_join_cpt = @ + 1,
               !.next_time_to_join_seconds =
                   IF current_time_s < m.first_join_timestamp + 3600
                   THEN current_time_s + toa \div 10
                   ELSE IF current_time_s < m.first_join_timestamp + 36000 + 3600
                        THEN current_time_s + toa
                        ELSE current_time_s + toa * 10]
       ELSE smtc_real_next_dr_get(m)

\* The ADR part with ADRACKReq cleared already at ADR_ACK_LIMIT +
\* ADR_ACK_DELAY: the upper end of the window is taken as exclusive.
update_adr_window_exclusive(m) ==
    LET lim == m.adr_ack_limit
        del == m.adr_ack_delay
        m1 == IF m.adr_ack_cnt >= lim /\ m.adr_ack_cnt < lim + del
              THEN [m EXCEPT !.adr_ack_req = 1] ELSE m
        m2 == IF m1.adr_ack_cnt < lim \/ m1.adr_ack_cnt >= lim + del
              THEN [m1 EXCEPT !.adr_ack_req = 0] ELSE m1
        dec == smtc_real_dr_decrement(m2)
        m3 == IF m2.adr_ack_cnt >= lim + del
              THEN IF dec.tx_data_rate_adr # smtc_real_min_dr_channel_get
                   THEN [dec EXCEPT !.adr_ack_cnt = lim]
                   ELSE dec
              ELSE m2
    IN IF m3.adr_ack_cnt_confirmed_frame >= ADR_LIMIT_CONF_UP
       THEN smtc_real_dr_decrement([m3 EXCEPT !.adr_ack_cnt_confirmed_frame = 0])
       ELSE m3

\* The ADR part with adr_ack_cnt put back to 0 instead of ADR_ACK_LIMIT after
\* a fallback: the next one comes a full ADR_ACK_LIMIT + ADR_ACK_DELAY later.
update_adr_clamp_to_zero(m) ==
    LET lim == m.adr_ack_limit
        del == m.adr_ack_delay
        m1 == IF m.adr_ack_cnt >= lim /\ m.adr_ack_cnt <= lim + del
              THEN [m EXCEPT !.adr_ack_req = 1] ELSE m
        m2 == IF m1.adr_ack_cnt < lim \/ m1.adr_ack_cnt > lim + del
              THEN [m1 EXCEPT !.adr_ack_req = 0] ELSE m1
        dec == smtc_real_dr_decrement(m2)
        m3 == IF m2.adr_ack_cnt >= lim + del
              THEN IF dec.tx_data_rate_adr # smtc_real_min_dr_channel_get
                   THEN [dec EXCEPT !.adr_ack_cnt = 0]
                   ELSE dec
              ELSE m2
    IN IF m3.adr_ack_cnt_confirmed_frame >= ADR_LIMIT_CONF_UP
       THEN smtc_real_dr_decrement([m3 EXCEPT !.adr_ack_cnt_confirmed_frame = 0])
       ELSE m3

\* The ADR part of lr1_stack_mac_update: ADRACKReq, the data-rate fallback
\* and the confirmed-uplink fallback.
update_adr(m) ==
    LET lim == m.adr_ack_limit
        del == m.adr_ack_delay
        m1 == IF m.adr_ack_cnt >= lim /\ m.adr_ack_cnt <= lim + del
              THEN [m EXCEPT !.adr_ack_req = 1] ELSE m
        m2 == IF m1.adr_ack_cnt < lim \/ m1.adr_ack_cnt > lim + del
              THEN [m1 EXCEPT !.adr_ack_req = 0] ELSE m1
        dec == smtc_real_dr_decrement(m2)
        m3 == IF m2.adr_ack_cnt >= lim + del
              THEN IF dec.tx_data_rate_adr # smtc_real_min_dr_channel_get
                   THEN [dec EXCEPT !.adr_ack_cnt = lim]
                   ELSE dec
              ELSE m2
    IN IF m3.adr_ack_cnt_confirmed_frame >= ADR_LIMIT_CONF_UP
       THEN smtc_real_dr_decrement([m3 EXCEPT !.adr_ack_cnt_confirmed_frame = 0])
       ELSE m3

\* The network frame lr1_stack_mac_update builds when the answers do not fit
\* in FOpts.
update_nwk_frame(m) ==
    LET size == IF smtc_real_is_valid_size(m.tx_data_rate, m.nwk_ans_size) # OKLORAWAN
                THEN lr1_stack_mac_cmd_ans_cut(m.nwk_ans, m.nwk_ans_size,
                                               smtc_real_max_payload_size_get(m.tx_data_rate))
                ELSE m.nwk_ans_size
        m1 == [m EXCEPT !.nwk_ans_size = size,
                        !.tx_payload = WrSeq(@, FHDROFFSET, RdSeq(m.nwk_ans, 0, size)),
                        !.app_payload_size = size,
                        !.tx_fport = PORTNWK,
                        !.tx_mtype = UNCONF_DATA_UP]
    IN lr1_stack_mac_tx_frame_encrypt(lr1_stack_mac_tx_frame_build(m1))

\* lr1_stack_mac_update with the test on the FOpts total left out: the
\* answers always go to FOpts.
update_fopts_no_limit(m) ==
    LET sticky == RdSeq(m.tx_fopts_datasticky, 0, m.tx_fopts_lengthsticky)
        data == RdSeq(m.tx_fopts_data, 0, m.tx_fopts_length)
    IN [m EXCEPT !.tx_fopts_current_length = m.tx_fopts_lengthsticky + m.tx_fopts_length,
                 !.tx_fopts_current_data =
                     WrSeq(WrSeq(@, 0, sticky), m.tx_fopts_lengthsticky, data),
                 !.tx_fopts_length = 0]

\* The part of lr1_stack_mac_update that merges the sticky and the new MAC
\* answers: into nwk_ans when they exceed the 15 bytes of FOpts, into
\* tx_fopts_current_data otherwise.
update_fopts(m) ==
    LET sticky == RdSeq(m.tx_fopts_datasticky, 0, m.tx_fopts_lengthsticky)
        data == RdSeq(m.tx_fopts_data, 0, m.tx_fopts_length)
        m1 == IF m.tx_fopts_length + m.tx_fopts_lengthsticky > 15
              THEN [m EXCEPT
                      !.nwk_ans_size = (m.tx_fopts_lengthsticky + m.tx_fopts_length) % 256,
                      !.nwk_ans = WrSeq(WrSeq(@, 0, sticky), m.tx_fopts_lengthsticky, data),
                      !.type_of_ans_to_send = "NWKFRAME_TOSEND"]
              ELSE [m EXCEPT
                      !.tx_fopts_current_length =
                          m.tx_fopts_lengthsticky + m.tx_fopts_length,
                      !.tx_fopts_current_data =
                          WrSeq(WrSeq(@, 0, sticky), m.tx_fopts_lengthsticky, data)]
    IN [m1 EXCEPT !.tx_fopts_length = 0]

\* lr1_stack_mac_update.  The result is the object after the call and
\* whether bsp_mcu_handle_lr1mac_issue was called.
lr1_stack_mac_update(m, current_time_s) ==
    LET m0 == [m EXCEPT !.adr_ack_limit = smtc_real_adr_ack_limit_get,
                        !.adr_ack_delay = smtc_real_adr_ack_delay_get,
                        !.type_of_ans_to_send = "NOFRAME_TOSEND"]
        m1 == update_adr(update_join(m0, current_time_s))
        issue == m1.adr_ack_cnt + m1.adr_ack_cnt_confirmed_frame >= NO_RX_PACKET_CNT
        m2 == IF m1.nb_trans_cpt <= 1
              THEN [m1 EXCEPT !.fcnt_up = @ + 1, !.nb_trans_cpt = 1]
              ELSE [m1 EXCEPT !.type_of_ans_to_send = "USRFRAME_TORETRANSMIT",
                              !.nb_trans_cpt = @ - 1]
        m4 == update_fopts(m2)
    IN [issue |-> issue,
        m |-> IF m4.type_of_ans_to_send = "NWKFRAME_TOSEND"
              THEN update_nwk_frame(m4) ELSE m4]

---------------------------------------------------------------------------
(* MAC commands: identifiers and sizes (lr1mac_defs.h), the region's       *)
(* validators (smtc_real.c), neither part of the sources at hand, and the  *)
(* parsers of lr1_stack_mac_layer.c.                                       *)

LINK_CHECK_ANS == 2
LINK_ADR_REQ == 3
DUTY_CYCLE_REQ == 4
RXPARRAM_SETUP_REQ == 5
DEV_STATUS_REQ == 6
NEW_CHANNEL_REQ == 7
RXTIMING_SETUP_REQ == 8
TXPARAM_SETUP_REQ == 9
DL_CHANNEL_REQ == 10

LINK_CHECK_ANS_SIZE == 3
LINK_ADR_REQ_SIZE == 5
DUTY_CYCLE_REQ_SIZE == 2
RXPARRAM_SETUP_REQ_SIZE == 5
DEV_STATUS_REQ_SIZE == 1
NEW_CHANNEL_REQ_SIZE == 6
RXTIMING_SETUP_REQ_SIZE == 2
TXPARAM_SETUP_REQ_SIZE == 2
DL_CHANNEL_REQ_SIZE == 5

bsp_mcu_get_battery_level == 255

\* The band of the region, in Hz, and its number of channels.
FREQMIN == 863000000
FREQMAX == 870000000
NUMBER_OF_CHANNEL == 16
NUMBER_OF_DEFAULT_CHANNEL == 3

\* x & mask for a mask that keeps the bits of the set ks.
RECURSIVE AndBits(_, _)
AndBits(x, ks) ==
    IF ks = {} THEN 0
    ELSE LET k == CHOOSE j \in ks : TRUE
         IN Bit(x, k) * Pow2(k) + AndBits(x, ks \ {k})

smtc_real_decode_freq_from_buf(buf, at) ==
    (Rd(buf, at) + Rd(buf, at + 1) * 256 + Rd(buf, at + 2) * 65536) * 100

smtc_real_is_acceptable_dr(m, dr) ==
    IF \E i \in 0..(NUMBER_OF_CHANNEL - 1) :
           /\ Bit(m.unwrapped_channel_mask, i) = 1
           /\ dr >= m.channel[i].min_dr /\ dr <= m.channel[i].max_dr
    THEN OKLORAWAN ELSE ERRORLORAWAN

smtc_real_is_valid_tx_power(power) == IF power <= 7 THEN OKLORAWAN ELSE ERRORLORAWAN

smtc_real_is_valid_rx1_dr_offset(offset) == IF offset <= 5 THEN OKLORAWAN ELSE ERRORLORAWAN

smtc_real_is_valid_dr(dr) == IF dr <= 7 THEN OKLORAWAN ELSE ERRORLORAWAN

smtc_real_is_valid_rx_frequency(f) ==
    IF f >= FREQMIN /\ f <= FREQMAX THEN OKLORAWAN ELSE ERRORLORAWAN

smtc_real_is_valid_tx_frequency(f) ==
    IF f = 0 \/ (f >= FREQMIN /\ f <= FREQMAX) THEN OKLORAWAN ELSE ERRORLORAWAN

smtc_real_is_valid_channel_index(idx) ==
    IF idx >= NUMBER_OF_DEFAULT_CHANNEL /\ idx < NUMBER_OF_CHANNEL
    THEN OKLORAWAN ELSE ERRORLORAWAN

smtc_real_max_eirp_dbm_from_idx(idx) ==
    <<8, 10, 12, 13, 14, 16, 18, 20, 21, 24, 26, 27, 29, 30, 33, 36>>[idx + 1]

\* smtc_real_channel_mask_build: the unwrapped mask a LinkADRReq block asks
\* for, and its status.
smtc_real_channel_mask_build(m, ChMaskCntl, ChMask) ==
    IF ChMaskCntl = 0
    THEN [status |-> IF ChMask = 0 \/
                        \E i \in 0..(NUMBER_OF_CHANNEL - 1) :
                            Bit(ChMask, i) = 1 /\ m.channel[i].tx_frequency = 0
                     THEN "ERROR_CHANNEL_MASK" ELSE "OKCHANNEL",
          m |-> [m EXCEPT !.unwrapped_channel_mask = ChMask]]
    ELSE IF ChMaskCntl = 6
    THEN LET RECURSIVE all(_)
             all(i) == IF i = NUMBER_OF_CHANNEL THEN 0
                       ELSE (IF m.channel[i].tx_frequency # 0 THEN Pow2(i) ELSE 0) + all(i + 1)
         IN [status |-> "OKCHANNEL", m |-> [m EXCEPT !.unwrapped_channel_mask = all(0)]]
    ELSE [status |-> "ERROR_CHANNEL_CNTL", m |-> m]

smtc_real_channel_mask_set(m) ==
    [m EXCEPT !.channel = [i \in 0..(NUMBER_OF_CHANNEL - 1) |->
                              [m.channel[i] EXCEPT
                                  !.enabled = Bit(m.unwrapped_channel_mask, i) = 1]]]

\* Appends the bytes src to the answers in tx_fopts_data.
AnsPut(m, src) ==
    [m EXCEPT !.tx_fopts_data = WrSeq(@, m.tx_fopts_length, src),
              !.tx_fopts_length = (@ + Len(src)) % 256]

\* Appends the bytes src to the sticky answers in tx_fopts_datasticky.
AnsPutSticky(m, src) ==
    [m EXCEPT !.tx_fopts_datasticky = WrSeq(@, m.tx_fopts_lengthsticky, src),
              !.tx_fopts_lengthsticky = (@ + Len(src)) % 256]

Advance(m, n) == [m EXCEPT !.nwk_payload_index = (@ + n) % 256]

link_check_parser(m) == Advance(m, LINK_CHECK_ANS_SIZE)

duty_cycle_parser(m) ==
    LET m1 == [m EXCEPT !.max_duty_cycle_index =
                            Rd(m.nwk_payload, m.nwk_payload_index + 1) % 16]
    IN Advance(AnsPut(m1, <<DUTY_CYCLE_REQ>>), DUTY_CYCLE_REQ_SIZE)

dev_status_parser(m) ==
    Advance(AnsPut(m, <<DEV_STATUS_REQ, bsp_mcu_get_battery_level, m.snr_pkt_in_db % 64>>),
            DEV_STATUS_REQ_SIZE)

rx_timing_setup_parser(m) ==
    LET d == Rd(m.nwk_payload, m.nwk_payload_index + 1) % 16
        m1 == [m EXCEPT !.rx1_delay_s = IF d = 0 THEN 1 ELSE d]
    IN Advance(AnsPutSticky(m1, <<RXTIMING_SETUP_REQ>>), RXTIMING_SETUP_REQ_SIZE)

tx_param_setup_parser(m) ==
    LET b == Rd(m.nwk_payload, m.nwk_payload_index + 1)
        m1 == [m EXCEPT !.max_eirp_dbm = smtc_real_max_eirp_dbm_from_idx(b % 16),
                        !.uplink_dwell_time = Bit(b, 4),
                        !.downlink_dwell_time = Bit(b, 5)]
    IN Advance(AnsPutSticky(m1, <<TXPARAM_SETUP_REQ>>), TXPARAM_SETUP_REQ_SIZE)

\* The first loop of link_adr_parser with an undefined ChMaskCntl clearing
\* bit 2 of the status.
RECURSIVE link_adr_masks_cntl_clears_bit2(_, _, _, _, _)
link_adr_masks_cntl_clears_bit2(m, i, nb_link_adr_req, status_ans, statusChannel) ==
    IF i >= nb_link_adr_req
    THEN [m |-> m, status_ans |-> status_ans, statusChannel |-> statusChannel]
    ELSE LET at == m.nwk_payload_index + i * LINK_ADR_REQ_SIZE
             b == smtc_real_channel_mask_build(
                      m, Shr(Rd(m.nwk_payload, at + 4), 4) % 8,
                      Rd(m.nwk_payload, at + 2) + Rd(m.nwk_payload, at + 3) * 256)
         IN link_adr_masks_cntl_clears_bit2(
                b.m, i + 1, nb_link_adr_req,
                IF b.status = "ERROR_CHANNEL_CNTL"
                THEN AndBits(status_ans, {0, 1}) ELSE status_ans,
                b.status)

\* The first loop of link_adr_parser: the channel mask of each of the
\* nb_link_adr_req blocks from block i on is built in turn; status_ans loses
\* bit 0 at each block whose ChMaskCntl is not defined, and statusChannel is
\* the status of the last block.
RECURSIVE link_adr_masks(_, _, _, _, _)
link_adr_masks(m, i, nb_link_adr_req, status_ans, statusChannel) ==
    IF i >= nb_link_adr_req
    THEN [m |-> m, status_ans |-> status_ans, statusChannel |-> statusChannel]
    ELSE LET at == m.nwk_payload_index + i * LINK_ADR_REQ_SIZE
             channel_mask_temp == Rd(m.nwk_payload, at + 2) + Rd(m.nwk_payload, at + 3) * 256
             ChMAstCntlTemp == Shr(Rd(m.nwk_payload, at + 4), 4) % 8
             b == smtc_real_channel_mask_build(m, ChMAstCntlTemp, channel_mask_temp)
         IN link_adr_masks(b.m, i + 1, nb_link_adr_req,
                           IF b.status = "ERROR_CHANNEL_CNTL"
                           THEN AndBits(status_ans, {1, 2}) ELSE status_ans,
                           b.status)

link_adr_parser(m, nb_link_adr_req) ==
    LET r == link_adr_masks(m, 0, nb_link_adr_req, 7, "OKCHANNEL")
        a1 == IF r.statusChannel = "ERROR_CHANNEL_MASK"
              THEN AndBits(r.status_ans, {1, 2}) ELSE r.status_ans
        last_at == m.nwk_payload_index + (nb_link_adr_req - 1) * LINK_ADR_REQ_SIZE
        dr_tmp == Shr(Rd(m.nwk_payload, last_at + 1), 4)
        a2 == IF smtc_real_is_acceptable_dr(r.m, dr_tmp) = ERRORLORAWAN
              THEN AndBits(a1, {0, 2}) ELSE a1
        tx_power_tmp == Rd(m.nwk_payload, last_at + 1) % 16
        status_ans == IF smtc_real_is_valid_tx_power(tx_power_tmp) = ERRORLORAWAN
                      THEN AndBits(a2, {0, 1}) ELSE a2
        nb_trans_tmp == Rd(m.nwk_payload, last_at + 4) % 16
        m1 == IF status_ans = 7
              THEN [smtc_real_channel_mask_set(r.m) EXCEPT
                       !.tx_power = tx_power_tmp,
                       !.nb_trans = nb_trans_tmp,
                       !.tx_data_rate_adr = dr_tmp]
              ELSE r.m
        RECURSIVE answers(_)
        answers(i) == IF i >= nb_link_adr_req THEN <<>>
                      ELSE <<LINK_ADR_REQ, status_ans>> \o answers(i + 1)
    IN Advance(AnsPut(m1, answers(0)), nb_link_adr_req * LINK_ADR_REQ_SIZE)

rx_param_setup_parser(m) ==
    LET at == m.nwk_payload_index
        rx1_dr_offset_temp == Shr(Rd(m.nwk_payload, at + 1), 4) % 8
        a1 == IF smtc_real_is_valid_rx1_dr_offset(rx1_dr_offset_temp) = ERRORLORAWAN
              THEN AndBits(7, {1, 2}) ELSE 7
        rx2_dr_temp == Rd(m.nwk_payload, at + 1) % 16
        a2 == IF smtc_real_is_valid_dr(rx2_dr_temp) = ERRORLORAWAN
              THEN AndBits(a1, {0, 2}) ELSE a1
        rx2_frequency_temp == smtc_real_decode_freq_from_buf(m.nwk_payload, at + 2)
        status_ans == IF smtc_real_is_valid_rx_frequency(rx2_frequency_temp) = ERRORLORAWAN
                      THEN AndBits(a2, {0, 1}) ELSE a2
        m1 == IF status_ans = 7
              THEN [m EXCEPT !.rx1_dr_offset = rx1_dr_offset_temp,
                             !.rx2_data_rate = rx2_dr_temp,
                             !.rx2_frequency = rx2_frequency_temp]
              ELSE m
    IN Advance(AnsPutSticky(m1, <<RXPARRAM_SETUP_REQ, status_ans>>), RXPARRAM_SETUP_REQ_SIZE)

new_channel_parser(m) ==
    LET at == m.nwk_payload_index
        channel_index_temp == Rd(m.nwk_payload, at + 1)
        a1 == IF smtc_real_is_valid_channel_index(channel_index_temp) = ERRORLORAWAN
              THEN 0 ELSE 3
        frequency_temp == smtc_real_decode_freq_from_buf(m.nwk_payload, at + 2)
        a2 == IF smtc_real_is_valid_tx_frequency(frequency_temp) = ERRORLORAWAN
              THEN AndBits(a1, {1}) ELSE a1
        dr_range_min_temp == Rd(m.nwk_payload, at + 5) % 16
        a3 == IF smtc_real_is_valid_dr(dr_range_min_temp) = ERRORLORAWAN
              THEN AndBits(a2, {0}) ELSE a2
        dr_range_max_temp == Shr(Rd(m.nwk_payload, at + 5), 4)
        a4 == IF smtc_real_is_valid_dr(dr_range_max_temp) = ERRORLORAWAN
              THEN AndBits(a3, {0}) ELSE a3
        status_ans == IF dr_range_max_temp < dr_range_min_temp
                      THEN AndBits(a4, {0}) ELSE a4
        m1 == IF status_ans = 3
              THEN [m EXCEPT !.channel[channel_index_temp] =
                                 [tx_frequency |-> frequency_temp,
                                  rx1_frequency |-> frequency_temp,
                                  min_dr |-> dr_range_min_temp,
                                  max_dr |-> dr_range_max_temp,
                                  enabled |-> frequency_temp # 0]]
              ELSE m
    IN Advance(AnsPut(m1, <<NEW_CHANNEL_REQ, status_ans>>), NEW_CHANNEL_REQ_SIZE)

\* dl_channel_parser with the new frequency stored whatever the status.
dl_channel_parser_applies_refused(m) ==
    LET at == m.nwk_payload_index
        channel_index_temp == Rd(m.nwk_payload, at + 1)
        status_ans == IF channel_index_temp < NUMBER_OF_CHANNEL /\
                          m.channel[channel_index_temp].tx_frequency # 0
                      THEN 3 ELSE 1
        m1 == [m EXCEPT !.channel[channel_index_temp % NUMBER_OF_CHANNEL].rx1_frequency =
                            smtc_real_decode_freq_from_buf(m.nwk_payload, at + 2)]
    IN Advance(AnsPutSticky(m1, <<DL_CHANNEL_REQ, status_ans>>), DL_CHANNEL_REQ_SIZE)

\* smtc_real_tx_frequency_channel_get of an index outside the table is taken
\* as 0, an undefined channel.
dl_channel_parser(m) ==
    LET at == m.nwk_payload_index
        channel_index_temp == Rd(m.nwk_payload, at + 1)
        defined == channel_index_temp < NUMBER_OF_CHANNEL /\
                   m.channel[channel_index_temp].tx_frequency # 0
        a1 == IF ~defined THEN AndBits(3, {0}) ELSE 3
        frequency_temp == smtc_real_decode_freq_from_buf(m.nwk_payload, at + 2)
        status_ans == IF smtc_real_is_valid_rx_frequency(frequency_temp) = ERRORLORAWAN
                      THEN AndBits(a1, {1}) ELSE a1
        m1 == IF status_ans = 3
              THEN [m EXCEPT !.channel[channel_index_temp].rx1_frequency = frequency_temp]
              ELSE m
    IN Advance(AnsPutSticky(m1, <<DL_CHANNEL_REQ, status_ans>>), DL_CHANNEL_REQ_SIZE)

\* Each LinkADRReq block taken as a request of its own.
count_link_adr_req_one_block(m, n) == 1

\* The number of contiguous LinkADRReq blocks at the parse position, counted
\* from n.
RECURSIVE count_link_adr_req(_, _)
count_link_adr_req(m, n) ==
    IF /\ Rd(m.nwk_payload, m.nwk_payload_index + n * LINK_ADR_REQ_SIZE) = LINK_ADR_REQ
       /\ m.nwk_payload_index + n * LINK_ADR_REQ_SIZE < m.nwk_payload_size
    THEN count_link_adr_req(m, n + 1)
    ELSE n

\* The switch of lr1_stack_mac_cmd_parse: the parser of the command at the
\* parse position, or the end of the parse for an identifier it does not
\* know.
cmd_parse_switch(m) ==
    LET cmd_identifier == Rd(m.nwk_payload, m.nwk_payload_index)
    IN CASE cmd_identifier = LINK_CHECK_ANS -> link_check_parser(m)
         [] cmd_identifier = LINK_ADR_REQ ->
                link_adr_parser(m, count_link_adr_req(m, 0))
         [] cmd_identifier = DUTY_CYCLE_REQ -> duty_cycle_parser(m)
         [] cmd_identifier = RXPARRAM_SETUP_REQ -> rx_param_setup_parser(m)
         [] cmd_identifier = DEV_STATUS_REQ -> dev_status_parser(m)
         [] cmd_identifier = NEW_CHANNEL_REQ -> new_channel_parser(m)
         [] cmd_identifier = RXTIMING_SETUP_REQ -> rx_timing_setup_parser(m)
         [] cmd_identifier = TXPARAM_SETUP_REQ -> tx_param_setup_parser(m)
         [] cmd_identifier = DL_CHANNEL_REQ -> dl_channel_parser(m)
         [] OTHER -> [m EXCEPT !.nwk_payload_size = 0]

\* The while loop of lr1_stack_mac_cmd_parse.
RECURSIVE cmd_parse_loop(_)
cmd_parse_loop(m) ==
    IF m.nwk_payload_size > m.nwk_payload_index
    THEN IF m.tx_fopts_length > 200
         THEN [status |-> ERRORLORAWAN, m |-> m]
         ELSE cmd_parse_loop(cmd_parse_switch(m))
    ELSE [status |-> OKLORAWAN, m |-> m]

lr1_stack_mac_cmd_parse(m) ==
    cmd_parse_loop([m EXCEPT !.nwk_payload_index = 0,
                             !.nwk_ans_size = 0,
                             !.tx_fopts_length = 0,
                             !.tx_fopts_lengthsticky = 0])

---------------------------------------------------------------------------
(* The environment: the region defaults, the frames on air, the planner.   *)

\* The device address the network assigns in the Join-Accept.
DevAddr == 37

\* smtc_real_config and the defaults of lr1mac_core_init (neither part of the
\* sources at hand): three default channels with data rates 0..5, all
\* enabled, ADR on, the uplink data rate DR5 (SF7), RX2 on 869.525 MHz.
smtc_real_config(m) ==
    [m EXCEPT !.channel = [i \in 0..(NUMBER_OF_CHANNEL - 1) |->
                              IF i < NUMBER_OF_DEFAULT_CHANNEL
                              THEN [tx_frequency |-> 868100000 + i * 200000,
                                    rx1_frequency |-> 868100000 + i * 200000,
                                    min_dr |-> 0, max_dr |-> 5, enabled |-> TRUE]
                              ELSE m.channel[i]],
              !.unwrapped_channel_mask = 7,
              !.tx_data_rate_adr = 5,
              !.tx_data_rate = 5,
              !.tx_sf = 7,
              !.rx2_frequency = 869525000,
              !.adr_enable = 1]

\* MAC commands as the network sends them.
DevStatusReq == <<DEV_STATUS_REQ>>

\* Six DevStatusReq: six bytes of FOpts whose answers take eighteen.
SixDevStatusReq == <<DEV_STATUS_REQ, DEV_STATUS_REQ, DEV_STATUS_REQ,
                     DEV_STATUS_REQ, DEV_STATUS_REQ, DEV_STATUS_REQ>>

\* The frames a receive window can deliver.
JoinFrames ==
    {JoinAcc(JOIN_ACCEPT, 0, 0, 0, TRUE, ok) : ok \in BOOLEAN}

DataFrames ==
    {DataDown(UNCONF_DATA_DOWN, DevAddr, 0, 1, DevStatusReq, FALSE, 0, <<>>, TRUE, U32(0, 1)),
     DataDown(UNCONF_DATA_DOWN, DevAddr, 0, 2, SixDevStatusReq, FALSE, 0, <<>>, TRUE, U32(0, 2)),
     DataDown(UNCONF_DATA_DOWN, DevAddr, 0, 2, <<>>, FALSE, 0, <<>>, FALSE, U32(0, 2))}

\* The Join-Accept of JoinFrames assigns DevAddr.
Assigned(f) == IF f.mtype = JOIN_ACCEPT THEN [f EXCEPT !.ja_dev_addr = DevAddr] ELSE f

Frames == {Assigned(f) : f \in JoinFrames} \cup DataFrames

\* The network answers a device that is joining with a Join-Accept and
\* addresses data frames to a device that has joined.
OnAir(m) == IF m.join_status = "NOT_JOINED"
            THEN {Assigned(f) : f \in JoinFrames} ELSE DataFrames

\* The statuses the planner reports for a task of each type.
TaskStatus(type) ==
    IF type = "TX" THEN {"TX_DONE", "ABORTED"} ELSE {"RX_PACKET", "RX_TIMEOUT"}

NoTask == [type |-> "NONE", state |-> "NONE", start_time_ms |-> 0]

\* What `last` keeps of the object an operation started from: the fields
\* named in keep.
Pre(m, keep) == [k \in keep |-> m[k]]

Done(op, arg, ret, issue, pre) ==
    [op |-> op, arg |-> arg, ret |-> ret, issue |-> issue, pre |-> pre]

\* The supervisor has a received frame to work on: it does so before
\* anything else.
Working == sup.rx_pending \/ sup.rx_packet_type # "NO_MORE_VALID_RX_PACKET"

---------------------------------------------------------------------------
(* The state machine.                                                      *)

Init ==
    /\ lr1_mac = lr1_stack_mac_init(smtc_real_config(ZeroMac), 0)
    /\ rp_task = NoTask
    /\ now = 0
    /\ sup = [rx_pending |-> FALSE, rx_packet_type |-> "NO_MORE_VALID_RX_PACKET",
              nb_uplink |-> 0]
    /\ last = Done("init", "", "", FALSE, <<>>)

\* The RTC advances while the supervisor has nothing to work on.
Tick ==
    /\ ~Working
    /\ now + TickMs <= MaxNow
    /\ now' = now + TickMs
    /\ UNCHANGED <<lr1_mac, rp_task, sup, last>>

\* lr1_stack_mac_tx_radio_start: rp_task_enqueue takes the task when the
\* hook's slot is free and answers BUSY otherwise.
TxRadioStart ==
    LET enqueued == rp_task.type = "NONE"
    IN /\ ~Working
       /\ lr1_mac.tx_payload_size > 0
       /\ sup.nb_uplink < MaxUplink
       /\ lr1_mac' = lr1_stack_mac_tx_radio_start(lr1_mac, enqueued)
       /\ rp_task' = IF enqueued
                     THEN [type |-> "TX", state |-> "ASAP", start_time_ms |-> now]
                     ELSE rp_task
       /\ last' = Done("tx_radio_start", "", IF enqueued THEN "OK" ELSE "BUSY", FALSE,
                       Pre(lr1_mac, {"radio_process_state", "adr_ack_cnt",
                                     "adr_ack_cnt_confirmed_frame"}))
       /\ sup' = [sup EXCEPT !.nb_uplink = IF enqueued THEN @ + 1 ELSE @]
       /\ UNCHANGED now

\* lr1_stack_mac_rx_timer_configure, called by the supervisor for the window
\* the cycle has come to; the RTC does not advance during the call.
RxTimerConfigure(type) ==
    LET r == lr1_stack_mac_rx_timer_configure(lr1_mac, type, now, now)
        enqueued == r.task.type # "NONE" /\ rp_task.type = "NONE"
    IN /\ ~Working
       /\ lr1_mac.radio_process_state \in {"TXFINISHED", "RX1FINISHED"}
       /\ lr1_mac' = r.m
       /\ rp_task' = IF enqueued THEN r.task ELSE rp_task
       /\ last' = Done("rx_timer_configure", type,
                       IF r.task.type = "NONE" THEN "MISSED"
                       ELSE IF enqueued THEN "OK" ELSE "BUSY", FALSE,
                       Pre(lr1_mac, {"radio_process_state"}))
       /\ UNCHANGED <<now, sup>>

\* The planner ends the task in flight and calls lr1_stack_mac_rp_callback;
\* the time of the radio interrupt and the RTC both read `now`.  A received
\* frame f is in the radio buffer when the status is RX_PACKET.
RpCallback(status, f) ==
    LET r == lr1_stack_mac_rp_callback(lr1_mac, status, now, f, now)
    IN /\ ~Working
       /\ rp_task.type # "NONE"
       /\ status \in TaskStatus(rp_task.type)
       /\ status = "RX_PACKET" => f \in OnAir(lr1_mac)
       /\ lr1_mac' = r.m
       /\ rp_task' = NoTask
       /\ sup' = [sup EXCEPT !.rx_pending = r.m.planner_status = "RX_PACKET"]
       /\ last' = Done("rp_callback", status, "", r.issue,
                       Pre(lr1_mac, {"radio_process_state", "isr_radio_timestamp"}))
       /\ UNCHANGED now

\* The supervisor decodes the frame a callback left in the receive buffer.
RxFrameDecode ==
    LET r == lr1_stack_mac_rx_frame_decode(lr1_mac)
    IN /\ sup.rx_pending
       /\ lr1_mac' = r.m
       /\ sup' = [sup EXCEPT !.rx_pending = FALSE, !.rx_packet_type = r.ret]
       /\ last' = Done("rx_frame_decode", "", r.ret, FALSE,
                       Pre(lr1_mac, {"fcnt_dwn", "adr_ack_cnt", "adr_ack_cnt_confirmed_frame",
                                     "nb_trans_cpt", "tx_fopts_lengthsticky"}))
       /\ UNCHANGED <<rp_task, now>>

\* The supervisor handles a decoded Join-Accept.
JoinAccept ==
    /\ sup.rx_packet_type = "JOIN_ACCEPT_PACKET"
    /\ lr1_mac' = lr1_stack_mac_join_accept(lr1_mac, now)
    /\ sup' = [sup EXCEPT !.rx_packet_type = "NO_MORE_VALID_RX_PACKET"]
    /\ last' = Done("join_accept", "", "", FALSE, Pre(lr1_mac, {"join_status"}))
    /\ UNCHANGED <<rp_task, now>>

\* The supervisor parses the MAC commands of a decoded frame.
CmdParse ==
    LET r == lr1_stack_mac_cmd_parse(lr1_mac)
    IN /\ sup.rx_packet_type \in {"NWKRXPACKET", "USERRX_FOPTSPACKET"}
       /\ lr1_mac' = r.m
       /\ sup' = [sup EXCEPT !.rx_packet_type = "NO_MORE_VALID_RX_PACKET"]
       /\ last' = Done("cmd_parse", "",
                       IF r.status = OKLORAWAN THEN "OKLORAWAN" ELSE "ERRORLORAWAN",
                       FALSE, <<>>)
       /\ UNCHANGED <<rp_task, now>>

\* lr1_stack_mac_update, at the end of a cycle.
Update ==
    LET r == lr1_stack_mac_update(lr1_mac, now \div 1000)
    IN /\ ~Working
       /\ lr1_mac.radio_process_state = "IDLE"
       /\ lr1_mac.fcnt_up < MaxFcntUp
       /\ lr1_mac.retry_join_cpt < MaxFcntUp
       /\ lr1_mac' = r.m
       /\ last' = Done("update", "", r.m.type_of_ans_to_send, r.issue,
                       Pre(lr1_mac, {"tx_fopts_length", "tx_fopts_lengthsticky",
                                     "tx_fopts_current_length", "fcnt_up", "nb_trans_cpt",
                                     "rx_ack_bit", "adr_ack_cnt", "tx_data_rate_adr"}))
       /\ UNCHANGED <<rp_task, now, sup>>

\* The supervisor builds a Join-Request.
JoinRequestBuild ==
    /\ ~Working
    /\ lr1_mac.join_status = "NOT_JOINED"
    /\ lr1_mac.radio_process_state = "IDLE"
    /\ lr1_mac.dev_nonce < MaxDevNonce
    /\ lr1_mac' = lr1_stack_mac_join_request_build(lr1_mac)
    /\ last' = Done("join_request_build", "", "", FALSE, <<>>)
    /\ UNCHANGED <<rp_task, now, sup>>

\* The application hands a payload to send.
PayloadSend(mtype) ==
    /\ ~Working
    /\ lr1_mac.join_status = "JOINED"
    /\ lr1_mac.radio_process_state = "IDLE"
    /\ lr1_mac' = lr1mac_core_payload_send(lr1_mac, mtype)
    /\ last' = Done("payload_send", mtype, "", FALSE,
                    Pre(lr1_mac, {"tx_fopts_current_length"}))
    /\ UNCHANGED <<rp_task, now, sup>>

Next ==
    \/ Tick
    \/ JoinRequestBuild
    \/ \E mtype \in {UNCONF_DATA_UP, CONF_DATA_UP} : PayloadSend(mtype)
    \/ TxRadioStart
    \/ \E type \in {"RX1", "RX2"} : RxTimerConfigure(type)
    \/ \E status \in {"TX_DONE", "RX_PACKET", "RX_TIMEOUT", "ABORTED"} :
          \E f \in IF status = "RX_PACKET" THEN Frames ELSE {NoFrame} :
             RpCallback(status, f)
    \/ RxFrameDecode
    \/ JoinAccept
    \/ CmdParse
    \/ Update

Spec == Init /\ [][Next]_vars

---------------------------------------------------------------------------
(* fcnt_dwn_accept on its own: the stored counter and the received 16-bit  *)
(* counter are drawn from sets that hold the sentinel, both ends of the    *)
(* 16-bit range, a gap of exactly MAX_FCNT_GAP and a high half of 0xFFFF.  *)

StoredFcnt ==
    {U32_MAX, U32(0, 0), U32(0, 160), U32(0, 32768), U32(0, 65534),
     U32(1, 5), U32(65535, 0), U32(65535, 32768)}

ReceivedFcnt == {0, 1, 2, 160, 16383, 16384, 32768, 65535}

InitFcnt ==
    /\ \E s \in StoredFcnt :
          lr1_mac = [lr1_stack_mac_init(smtc_real_config(ZeroMac), 0)
                       EXCEPT !.join_status = "JOINED", !.fcnt_dwn = s]
    /\ rp_task = NoTask
    /\ now = 0
    /\ sup = [nb_downlink |-> 0]
    /\ last = Done("init", "", "", FALSE, <<>>)

\* status = fcnt_dwn_accept( fcnt_dwn_tmp, &lr1_mac->fcnt_dwn ), for the
\* first MaxDownlink downlinks; sup counts them.
FcntDwnAccept(fcnt_dwn_tmp) ==
    LET acc == fcnt_dwn_accept(fcnt_dwn_tmp, lr1_mac.fcnt_dwn)
    IN /\ sup.nb_downlink < MaxDownlink
       /\ sup' = [sup EXCEPT !.nb_downlink = @ + 1]
       /\ lr1_mac' = [lr1_mac EXCEPT !.fcnt_dwn = acc.fcnt]
       /\ last' = Done("fcnt_dwn_accept", fcnt_dwn_tmp,
                       IF acc.status = OKLORAWAN THEN "OKLORAWAN" ELSE "ERRORLORAWAN",
                       FALSE, Pre(lr1_mac, {"fcnt_dwn"}))
       /\ UNCHANGED <<rp_task, now>>

NextFcnt == \E fcnt_dwn_tmp \in ReceivedFcnt : FcntDwnAccept(fcnt_dwn_tmp)

SpecFcnt == InitFcnt /\ [][NextFcnt]_vars

---------------------------------------------------------------------------
(* Properties of the frame counter reconstruction, under SpecFcnt.         *)

\* The reconstruction as the specification states it, for a stored 32-bit
\* counter s and a received 16-bit counter r: the sentinel takes r as it is;
\* r above the low half of s keeps the high half; a gap above MAX_FCNT_GAP
\* adds 1 << 16 in 32-bit arithmetic; anything else is a replay and s stays.
Reconstruct(s, r) ==
    CASE s = U32_MAX -> [outcome |-> "Accept", s |-> U32(0, r)]
      [] s # U32_MAX /\ r > s.lo -> [outcome |-> "Accept", s |-> U32(s.hi, r)]
      [] s # U32_MAX /\ r <= s.lo /\ s.lo - r > 16384 ->
             [outcome |-> "Accept",
              s |-> U32(IF s.hi = 65535 THEN 0 ELSE s.hi + 1, r)]
      [] OTHER -> [outcome |-> "Replay", s |-> s]

\* C3: every accepted downlink strictly increases the stored 32-bit
\* FCntDown, unless the stored value was the sentinel 0xFFFFFFFF.
C3_AcceptedStrictlyIncreases ==
    (/\ last.op = "fcnt_dwn_accept"
     /\ last.ret = "OKLORAWAN"
     /\ last.pre.fcnt_dwn # U32_MAX)
    => U32Less(last.pre.fcnt_dwn, lr1_mac.fcnt_dwn)

\* C4: fcnt_dwn_accept returns and stores what the reconstruction of the
\* specification gives for the stored counter and the received counter.
C4_Reconstruction ==
    last.op = "fcnt_dwn_accept" =>
        LET rec == Reconstruct(last.pre.fcnt_dwn, last.arg)
        IN /\ (last.ret = "OKLORAWAN") = (rec.outcome = "Accept")
           /\ lr1_mac.fcnt_dwn = rec.s

\* C4: s = 0x0000FFFE and r = 1 have been reconstructed as 0x00010001.
C4_Witness ==
    /\ last.op = "fcnt_dwn_accept"
    /\ last.pre.fcnt_dwn = U32(0, 65534)
    /\ last.arg = 1
    /\ last.ret = "OKLORAWAN"
    /\ lr1_mac.fcnt_dwn = U32(1, 1)

---------------------------------------------------------------------------
(* Properties of the receive path, under Spec.                             *)

\* The fields of the object a rejected downlink must leave alone.
DownlinkFields ==
    {"fcnt_dwn", "adr_ack_cnt", "adr_ack_cnt_confirmed_frame", "nb_trans_cpt",
     "tx_fopts_lengthsticky"}

\* The last operation was lr1_stack_mac_rx_frame_decode on a data frame that
\* reached fcnt_dwn_accept: long enough, a downlink MType, the device's
\* address.
DecodedDataFrame ==
    /\ last.op = "rx_frame_decode"
    /\ lr1_mac.rx_payload.mtype \in {UNCONF_DATA_DOWN, CONF_DATA_DOWN}
    /\ lr1_mac.rx_payload.size >= MIN_LORAWAN_PAYLOAD_SIZE
    /\ lr1_mac.rx_payload.hdr_addr = lr1_mac.dev_addr

\* The received 16-bit counter of the last decoded frame is a replay of the
\* counter stored before the decode: not above its low half, and not more
\* than MAX_FCNT_GAP below it, the stored counter not being the sentinel.
ReplayedCounter ==
    /\ last.pre.fcnt_dwn # U32_MAX
    /\ lr1_mac.rx_payload.fcnt <= last.pre.fcnt_dwn.lo
    /\ last.pre.fcnt_dwn.lo - lr1_mac.rx_payload.fcnt <= 16384

\* C1: a data frame that passes the counter window test and then fails the
\* MIC check leaves fcnt_dwn, the ADR counters and the sticky FOpts length as
\* they were before the decode.
C1_FcntDwnKeptOnMicFailure ==
    (/\ DecodedDataFrame
     /\ ~ReplayedCounter
     /\ ~lr1_mac.rx_payload.mic_ok)
    => /\ last.ret = "NO_MORE_VALID_RX_PACKET"
       /\ lr1_mac.fcnt_dwn = last.pre.fcnt_dwn
       /\ lr1_mac.adr_ack_cnt = last.pre.adr_ack_cnt
       /\ lr1_mac.adr_ack_cnt_confirmed_frame = last.pre.adr_ack_cnt_confirmed_frame
       /\ lr1_mac.tx_fopts_lengthsticky = last.pre.tx_fopts_lengthsticky

\* C2: the decode of a data frame whose counter is a replay returns
\* NO_MORE_VALID_RX_PACKET and leaves fcnt_dwn, adr_ack_cnt,
\* adr_ack_cnt_confirmed_frame, nb_trans_cpt and the sticky FOpts length as
\* they were, whatever the MIC of the frame.
C2_ReplayRejected ==
    (/\ last.op = "rx_frame_decode"
     /\ lr1_mac.rx_payload.mtype \in {UNCONF_DATA_DOWN, CONF_DATA_DOWN}
     /\ ReplayedCounter)
    => /\ last.ret = "NO_MORE_VALID_RX_PACKET"
       /\ Pre(lr1_mac, DownlinkFields) = last.pre

\* C2: a frame with a valid MIC and the device's address has been decoded
\* with the counter of a downlink accepted before it.
C2_Witness ==
    /\ DecodedDataFrame
    /\ ReplayedCounter
    /\ lr1_mac.rx_payload.mic_ok
    /\ lr1_mac.rx_payload.fcnt = last.pre.fcnt_dwn.lo
    /\ last.ret = "NO_MORE_VALID_RX_PACKET"

\* C5: after lr1_stack_mac_join_accept the session is fresh: both frame
\* counters, the three FOpts lengths and the two ADR counters are reset and
\* the device is joined.
C5_JoinAcceptResetsSession ==
    last.op = "join_accept" =>
        /\ lr1_mac.fcnt_up = 0
        /\ lr1_mac.fcnt_dwn = U32_MAX
        /\ lr1_mac.tx_fopts_lengthsticky = 0
        /\ lr1_mac.tx_fopts_length = 0
        /\ lr1_mac.tx_fopts_current_length = 0
        /\ lr1_mac.adr_ack_cnt = 0
        /\ lr1_mac.adr_ack_cnt_confirmed_frame = 0
        /\ lr1_mac.join_status = "JOINED"

\* C5: a device that was not joined has handled a Join-Accept.
C5_Witness ==
    /\ last.op = "join_accept"
    /\ last.pre.join_status = "NOT_JOINED"
    /\ lr1_mac.join_status = "JOINED"
    /\ lr1_mac.rx_payload.mtype = JOIN_ACCEPT

---------------------------------------------------------------------------
(* Properties of the radio cycle, under Spec.                              *)

\* The state after one step of the cycle TXON -> TXFINISHED -> RX1FINISHED
\* -> IDLE; IDLE stays.
CycleStep(state) ==
    CASE state = "TXON" -> "TXFINISHED"
      [] state = "TXFINISHED" -> "RX1FINISHED"
      [] state = "RX1FINISHED" -> "IDLE"
      [] OTHER -> "IDLE"

\* The planner statuses a callback can read; "OTHER" stands for any status
\* that is none of the four named ones.
PlannerStatus == {"TX_DONE", "RX_PACKET", "RX_TIMEOUT", "ABORTED", "OTHER"}

\* C6: every callback that has run advanced radio_process_state by one step
\* of the cycle; and from the current state a callback with any status and
\* any frame would advance it by one step, call the panic hook exactly when
\* the state is IDLE and leave it IDLE then, an ABORTED status giving the
\* state an RX_TIMEOUT status gives.
C6_CallbackAdvancesOneStep ==
    /\ last.op = "rp_callback" =>
           /\ lr1_mac.radio_process_state = CycleStep(last.pre.radio_process_state)
           /\ last.issue = (last.pre.radio_process_state = "IDLE")
    /\ \A status \in PlannerStatus : \A f \in Frames \cup {NoFrame} :
           LET r == lr1_stack_mac_rp_callback(lr1_mac, status, now, f, now)
               timeout == lr1_stack_mac_rp_callback(lr1_mac, "RX_TIMEOUT", now, f, now)
           IN /\ r.m.radio_process_state = CycleStep(lr1_mac.radio_process_state)
              /\ r.issue = (lr1_mac.radio_process_state = "IDLE")
              /\ status = "ABORTED" =>
                     r.m.radio_process_state = timeout.m.radio_process_state

\* C6: an aborted transmission has moved the cycle from TXON to TXFINISHED.
C6_Witness ==
    /\ last.op = "rp_callback"
    /\ last.arg = "ABORTED"
    /\ last.pre.radio_process_state = "TXON"
    /\ lr1_mac.radio_process_state = "TXFINISHED"

\* C7: lr1_stack_mac_tx_radio_start enqueues a transmission only when
\* radio_process_state is IDLE.
C7_EnqueueOnlyInIdle ==
    (last.op = "tx_radio_start" /\ last.ret = "OK")
    => last.pre.radio_process_state = "IDLE"

\* C8: isr_radio_timestamp changes only in a callback that finds the cycle
\* in TXON and reads the status TX_DONE.
C8_TimestampOnlyOnTxDone ==
    [][lr1_mac'.isr_radio_timestamp # lr1_mac.isr_radio_timestamp =>
           /\ last'.op = "rp_callback"
           /\ last'.arg = "TX_DONE"
           /\ lr1_mac.radio_process_state = "TXON"]_vars

---------------------------------------------------------------------------
(* Properties of the FOpts field, under Spec.                              *)

\* C9: when the sticky and the new MAC answers exceed 15 bytes at
\* lr1_stack_mac_update, the frame it builds is on FPort 0 with FOptsLen 0,
\* the FPort byte right after the frame counter, and the answers as the
\* FRMPayload.
C9_OverflowGoesToPortZero ==
    (/\ last.op = "update"
     /\ last.pre.tx_fopts_length + last.pre.tx_fopts_lengthsticky > 15)
    => /\ last.ret = "NWKFRAME_TOSEND"
       /\ lr1_mac.tx_fport = PORTNWK
       /\ lr1_mac.tx_fctrl % 16 = 0
       /\ Rd(lr1_mac.tx_payload, 8) = PORTNWK
       /\ RdSeq(lr1_mac.tx_payload, FHDROFFSET, lr1_mac.nwk_ans_size)
              = RdSeq(lr1_mac.nwk_ans, 0, lr1_mac.nwk_ans_size)

\* C10: tx_fopts_current_length never exceeds 15, and the FOptsLen nibble of
\* a frame that has just been built is tx_fopts_current_length.
C10_FoptsCurrentLengthFits ==
    /\ lr1_mac.tx_fopts_current_length <= 15
    /\ (last.op = "payload_send" \/ (last.op = "update" /\ last.ret = "NWKFRAME_TOSEND"))
           => lr1_mac.tx_fctrl % 16 = lr1_mac.tx_fopts_current_length

\* C10: an update has found more than 15 bytes of MAC answers.
C10_Witness ==
    /\ last.op = "update"
    /\ last.pre.tx_fopts_length + last.pre.tx_fopts_lengthsticky > 15
    /\ lr1_mac.tx_fopts_current_length <= 15

---------------------------------------------------------------------------
(* A joined session exchanging data: the retransmission count NbTrans is   *)
(* what a LinkADRReq left, and the network answers with and without the    *)
(* ACK bit.  The RTC stays at the time of the join, so that no receive     *)
(* window is missed.                                                       *)

\* The values of nb_trans a LinkADRReq has left in the session.
NbTrans == {1, 2, 3}

\* The object after a Join-Accept that assigns DevAddr, with nb_trans = n.
JoinedSession(n) ==
    [lr1_stack_mac_join_accept(
         [lr1_stack_mac_init(smtc_real_config(ZeroMac), 0)
            EXCEPT !.rx_payload = Assigned(JoinAcc(JOIN_ACCEPT, 0, 0, 0, TRUE, TRUE))], 0)
       EXCEPT !.nb_trans = n, !.nb_trans_cpt = 1]

\* The downlinks of the session: an empty frame without and with the ACK
\* bit, a frame without the ACK bit that carries six DevStatusReq, a frame
\* with the ACK bit whose MIC is wrong, and two ConfirmedDataDown, one of
\* them with a wrong MIC.
AckFrames ==
    {DataDown(UNCONF_DATA_DOWN, DevAddr, 0, 1, <<>>, FALSE, 0, <<>>, TRUE, U32(0, 1)),
     DataDown(UNCONF_DATA_DOWN, DevAddr, 1, 1, <<>>, FALSE, 0, <<>>, TRUE, U32(0, 1)),
     DataDown(UNCONF_DATA_DOWN, DevAddr, 0, 2, SixDevStatusReq, FALSE, 0, <<>>, TRUE, U32(0, 2)),
     DataDown(UNCONF_DATA_DOWN, DevAddr, 1, 2, <<>>, FALSE, 0, <<>>, FALSE, U32(0, 2)),
     DataDown(CONF_DATA_DOWN, DevAddr, 0, 1, <<>>, FALSE, 0, <<>>, TRUE, U32(0, 1)),
     DataDown(CONF_DATA_DOWN, DevAddr, 0, 2, <<>>, FALSE, 0, <<>>, FALSE, U32(0, 2))}

InitData ==
    /\ \E n \in NbTrans : lr1_mac = JoinedSession(n)
    /\ rp_task = NoTask
    /\ now = 0
    /\ sup = [rx_pending |-> FALSE, rx_packet_type |-> "NO_MORE_VALID_RX_PACKET",
              nb_uplink |-> 0]
    /\ last = Done("init", "", "", FALSE, <<>>)

\* The planner ends the task in flight and calls lr1_stack_mac_rp_callback; a
\* receive window delivers the frame f, whatever the device is waiting for.
RpCallbackAny(status, f) ==
    LET r == lr1_stack_mac_rp_callback(lr1_mac, status, now, f, now)
    IN /\ ~Working
       /\ rp_task.type # "NONE"
       /\ status \in TaskStatus(rp_task.type)
       /\ lr1_mac' = r.m
       /\ rp_task' = NoTask
       /\ sup' = [sup EXCEPT !.rx_pending = r.m.planner_status = "RX_PACKET"]
       /\ last' = Done("rp_callback", status, "", r.issue,
                       Pre(lr1_mac, {"radio_process_state", "isr_radio_timestamp"}))
       /\ UNCHANGED now

NextData ==
    \/ \E mtype \in {UNCONF_DATA_UP, CONF_DATA_UP} : PayloadSend(mtype)
    \/ TxRadioStart
    \/ \E type \in {"RX1", "RX2"} : RxTimerConfigure(type)
    \/ \E status \in {"TX_DONE", "RX_PACKET", "RX_TIMEOUT", "ABORTED"} :
          \E f \in IF status = "RX_PACKET" THEN AckFrames ELSE {NoFrame} :
             RpCallbackAny(status, f)
    \/ RxFrameDecode
    \/ CmdParse
    \/ Update

SpecData == InitData /\ [][NextData]_vars

---------------------------------------------------------------------------
(* Properties of the retransmission counter, under SpecData.               *)

\* The last operation was lr1_stack_mac_rx_frame_decode and it accepted a
\* data frame: the device's address, a counter that is no replay, a valid
\* MIC.
AcceptedDataFrame ==
    /\ DecodedDataFrame
    /\ ~ReplayedCounter
    /\ lr1_mac.rx_payload.mic_ok
    /\ lr1_mac.rx_payload.mic_fcnt = lr1_mac.fcnt_dwn

\* The ACK bit of FCtrl in the frame in the receive buffer.
FCtrlAck == Bit(lr1_mac.rx_payload.fctrl, 5) = 1

\* C11: after the decode of an accepted downlink, rx_ack_bit is set when the
\* frame has the ACK bit and the pending uplink is Confirmed, and in every
\* other case (no ACK bit, or no Confirmed uplink pending) nb_trans_cpt is 1.
C11_AckSetsFlagElseCounterReset ==
    AcceptedDataFrame =>
        IF FCtrlAck /\ lr1_mac.tx_mtype = CONF_DATA_UP
        THEN lr1_mac.rx_ack_bit = 1
        ELSE lr1_mac.nb_trans_cpt = 1

\* C12: the decode of an accepted downlink with the ACK bit, a Confirmed
\* uplink pending and nb_trans_cpt above 1, sets rx_ack_bit and puts
\* nb_trans_cpt to 1; and a lr1_stack_mac_update entered with rx_ack_bit set
\* asks for no retransmission and increments fcnt_up.
C12_AckEndsRetransmission ==
    /\ (/\ AcceptedDataFrame
        /\ FCtrlAck
        /\ lr1_mac.tx_mtype = CONF_DATA_UP
        /\ last.pre.nb_trans_cpt > 1)
       => /\ lr1_mac.rx_ack_bit = 1
          /\ lr1_mac.nb_trans_cpt = 1
    /\ (last.op = "update" /\ last.pre.rx_ack_bit = 1)
       => /\ last.ret # "USRFRAME_TORETRANSMIT"
          /\ lr1_mac.fcnt_up = last.pre.fcnt_up + 1

\* C12: a Confirmed uplink sent once with nb_trans above 1 has been
\* acknowledged, and the update after it has moved on to the next counter.
C12_Witness ==
    /\ last.op = "update"
    /\ last.pre.rx_ack_bit = 1
    /\ lr1_mac.nb_trans > 1
    /\ sup.nb_uplink = 1
    /\ lr1_mac.tx_mtype = CONF_DATA_UP
    /\ lr1_mac.fcnt_up = 1
    /\ lr1_mac.nb_trans_cpt = 1

\* C13: a lr1_stack_mac_update entered with nb_trans_cpt above 1 decrements
\* it, leaves fcnt_up alone and signals USRFRAME_TORETRANSMIT; entered with
\* nb_trans_cpt at most 1 it increments fcnt_up by one and sets nb_trans_cpt
\* to 1.  The frame to send after an update that left fcnt_up alone is the
\* retransmission of the pending one.
C13_UpdateRetransmitsOrAdvances ==
    last.op = "update" =>
        IF last.pre.nb_trans_cpt > 1
        THEN /\ lr1_mac.nb_trans_cpt = last.pre.nb_trans_cpt - 1
             /\ lr1_mac.fcnt_up = last.pre.fcnt_up
             /\ last.ret = "USRFRAME_TORETRANSMIT"
        ELSE /\ lr1_mac.fcnt_up = last.pre.fcnt_up + 1
             /\ lr1_mac.nb_trans_cpt = 1

---------------------------------------------------------------------------
(* The ADR fallback: a joined session sends unconfirmed uplinks and hears  *)
(* no downlink.  The supervisor runs its cycle in order: a payload, the    *)
(* transmission, the two receive windows, lr1_stack_mac_update.            *)

\* The number of uplinks of a run.
MaxAdrUplink == 260

\* The data rates a LinkADRReq can have left in tx_data_rate_adr.
StartDr == 0..5

InitAdr ==
    /\ \E dr \in StartDr :
          /\ lr1_mac = [JoinedSession(1) EXCEPT !.tx_data_rate_adr = dr]
          /\ sup = [rx_pending |-> FALSE, rx_packet_type |-> "NO_MORE_VALID_RX_PACKET",
                    nb_uplink |-> 0, start_dr |-> dr, step |-> "update"]
    /\ rp_task = NoTask
    /\ now = 0
    /\ last = Done("init", "", "", FALSE, <<>>)

\* The application hands an unconfirmed payload to send.
AdrPayloadSend ==
    /\ sup.step = "send"
    /\ sup.nb_uplink < MaxAdrUplink
    /\ lr1_mac.radio_process_state = "IDLE"
    /\ lr1_mac' = lr1mac_core_payload_send(lr1_mac, UNCONF_DATA_UP)
    /\ sup' = [sup EXCEPT !.step = "start"]
    /\ last' = Done("payload_send", UNCONF_DATA_UP, "", FALSE,
                    Pre(lr1_mac, {"tx_fopts_current_length"}))
    /\ UNCHANGED <<rp_task, now>>

\* lr1_stack_mac_tx_radio_start with the planner free.
AdrTxRadioStart ==
    /\ sup.step = "start"
    /\ rp_task.type = "NONE"
    /\ lr1_mac' = lr1_stack_mac_tx_radio_start(lr1_mac, TRUE)
    /\ rp_task' = [type |-> "TX", state |-> "ASAP", start_time_ms |-> now]
    /\ sup' = [sup EXCEPT !.step = "update", !.nb_uplink = @ + 1]
    /\ last' = Done("tx_radio_start", "", "OK", FALSE,
                    Pre(lr1_mac, {"radio_process_state", "adr_ack_cnt",
                                  "adr_ack_cnt_confirmed_frame"}))
    /\ UNCHANGED now

\* lr1_stack_mac_update, once the cycle is back in IDLE.
AdrUpdate ==
    LET r == lr1_stack_mac_update(lr1_mac, now \div 1000)
    IN /\ sup.step = "update"
       /\ rp_task.type = "NONE"
       /\ lr1_mac.radio_process_state = "IDLE"
       /\ lr1_mac' = r.m
       /\ sup' = [sup EXCEPT !.step = "send"]
       /\ last' = Done("update", "", r.m.type_of_ans_to_send, r.issue,
                       Pre(lr1_mac, {"tx_fopts_length", "tx_fopts_lengthsticky",
                                     "tx_fopts_current_length", "fcnt_up", "nb_trans_cpt",
                                     "rx_ack_bit", "adr_ack_cnt", "tx_data_rate_adr"}))
       /\ UNCHANGED <<rp_task, now>>

NextAdr ==
    \/ AdrPayloadSend
    \/ AdrTxRadioStart
    \/ \E status \in {"TX_DONE", "RX_TIMEOUT"} : RpCallback(status, NoFrame)
    \/ \E type \in {"RX1", "RX2"} : RxTimerConfigure(type)
    \/ AdrUpdate

SpecAdr == InitAdr /\ [][NextAdr]_vars

---------------------------------------------------------------------------
(* Properties of the ADR fallback, under SpecAdr.                          *)

\* C14: after a lr1_stack_mac_update, adr_ack_req is 1 when the adr_ack_cnt
\* the update was entered with lies between ADR_ACK_LIMIT and
\* ADR_ACK_LIMIT + ADR_ACK_DELAY, both included, and 0 otherwise.
C14_AdrAckReqWindow ==
    last.op = "update" =>
        lr1_mac.adr_ack_req =
            IF /\ smtc_real_adr_ack_limit_get <= last.pre.adr_ack_cnt
               /\ last.pre.adr_ack_cnt
                      <= smtc_real_adr_ack_limit_get + smtc_real_adr_ack_delay_get
            THEN 1 ELSE 0

\* C14: an update was entered with adr_ack_cnt at the upper end of the
\* window, and one with adr_ack_cnt just above it.
C14_Witness ==
    /\ last.op = "update"
    /\ last.pre.adr_ack_cnt = smtc_real_adr_ack_limit_get + smtc_real_adr_ack_delay_get + 1
    /\ lr1_mac.adr_ack_req = 0
    /\ lr1_mac.tx_data_rate_adr = smtc_real_min_dr_channel_get

\* C15: a lr1_stack_mac_update entered with adr_ack_cnt at or above
\* ADR_ACK_LIMIT + ADR_ACK_DELAY that lowers the data rate leaves adr_ack_cnt
\* at ADR_ACK_LIMIT, also when the new data rate is the lowest one; entered
\* with the lowest data rate it leaves adr_ack_cnt as it was.
C15_ClampWheneverDecreased ==
    (/\ last.op = "update"
     /\ last.pre.adr_ack_cnt >= smtc_real_adr_ack_limit_get + smtc_real_adr_ack_delay_get)
    => IF lr1_mac.tx_data_rate_adr < last.pre.tx_data_rate_adr
       THEN lr1_mac.adr_ack_cnt = smtc_real_adr_ack_limit_get
       ELSE lr1_mac.adr_ack_cnt = last.pre.adr_ack_cnt

\* The numbers j of fallback steps the runs are long enough for, and one
\* more.
FallbackSteps == 0..7

\* K = ADR_ACK_LIMIT + j * ADR_ACK_DELAY.
UplinksOfStep(j) == smtc_real_adr_ack_limit_get + j * smtc_real_adr_ack_delay_get

\* The highest data rate of the channels.
MaxDrChannel == lr1_mac.channel[0].max_dr

\* C16, as stated: in a run of unconfirmed uplinks without downlink, once
\* K = ADR_ACK_LIMIT + j * ADR_ACK_DELAY uplinks have been handed to the
\* planner the data rate is at least min(j, max_DR - min_DR) below the one
\* the run started with; the data rate never increases; and at the lowest
\* data rate adr_ack_cnt keeps growing.
C16_FallbackAfterKUplinks ==
    [][/\ lr1_mac'.tx_data_rate_adr <= lr1_mac.tx_data_rate_adr
       /\ \A j \in FallbackSteps :
              sup'.nb_uplink >= UplinksOfStep(j)
              => sup'.start_dr - lr1_mac'.tx_data_rate_adr
                     >= MinOf(j, MaxDrChannel - smtc_real_min_dr_channel_get)
       /\ lr1_mac.tx_data_rate_adr = smtc_real_min_dr_channel_get
              => /\ lr1_mac'.adr_ack_cnt >= lr1_mac.adr_ack_cnt
                 /\ last'.op = "tx_radio_start"
                        => lr1_mac'.adr_ack_cnt = lr1_mac.adr_ack_cnt + 1]_vars

\* C16, amended: after the lr1_stack_mac_update that closes the K-th uplink
\* of such a run the data rate is at least min(j, start - min_DR) below the
\* data rate `start` the run started with; the data rate never increases;
\* and at the lowest data rate adr_ack_cnt keeps growing.
C16_FallbackAfterClosingUpdate ==
    [][/\ lr1_mac'.tx_data_rate_adr <= lr1_mac.tx_data_rate_adr
       /\ last'.op = "update"
              => \A j \in FallbackSteps :
                     sup'.nb_uplink >= UplinksOfStep(j)
                     => sup'.start_dr - lr1_mac'.tx_data_rate_adr
                            >= MinOf(j, sup'.start_dr - smtc_real_min_dr_channel_get)
       /\ lr1_mac.tx_data_rate_adr = smtc_real_min_dr_channel_get
              => /\ lr1_mac'.adr_ack_cnt >= lr1_mac.adr_ack_cnt
                 /\ last'.op = "tx_radio_start"
                        => lr1_mac'.adr_ack_cnt = lr1_mac.adr_ack_cnt + 1]_vars

\* C16: a run that started at DR5 is at DR3 with adr_ack_cnt back at
\* ADR_ACK_LIMIT after the update that closes its 128th uplink.
C16_Witness ==
    /\ last.op = "update"
    /\ sup.nb_uplink = UplinksOfStep(2)
    /\ sup.start_dr = 5
    /\ lr1_mac.tx_data_rate_adr = 3
    /\ lr1_mac.adr_ack_cnt = smtc_real_adr_ack_limit_get

---------------------------------------------------------------------------
(* Properties of lr1_stack_mac_tx_radio_start, under SpecData.             *)

\* C17: when the planner takes the task of lr1_stack_mac_tx_radio_start the
\* state is TXON and one counter is one higher, adr_ack_cnt_confirmed_frame
\* for a ConfirmedDataUp and adr_ack_cnt for any other frame, the other
\* counter being as before; when the planner is busy radio_process_state and
\* both counters are as before.
C17_CountedIffEnqueued ==
    last.op = "tx_radio_start" =>
        IF last.ret = "OK"
        THEN /\ lr1_mac.radio_process_state = "TXON"
             /\ IF lr1_mac.tx_mtype = CONF_DATA_UP
                THEN /\ lr1_mac.adr_ack_cnt_confirmed_frame
                            = last.pre.adr_ack_cnt_confirmed_frame + 1
                     /\ lr1_mac.adr_ack_cnt = last.pre.adr_ack_cnt
                ELSE /\ lr1_mac.adr_ack_cnt = last.pre.adr_ack_cnt + 1
                     /\ lr1_mac.adr_ack_cnt_confirmed_frame
                            = last.pre.adr_ack_cnt_confirmed_frame
        ELSE /\ last.ret = "BUSY"
             /\ lr1_mac.radio_process_state = last.pre.radio_process_state
             /\ lr1_mac.adr_ack_cnt = last.pre.adr_ack_cnt
             /\ lr1_mac.adr_ack_cnt_confirmed_frame = last.pre.adr_ack_cnt_confirmed_frame

\* C17: the planner has refused the second start of a Confirmed uplink whose
\* first start it had counted.
C17_Witness ==
    /\ last.op = "tx_radio_start"
    /\ last.ret = "BUSY"
    /\ lr1_mac.tx_mtype = CONF_DATA_UP
    /\ lr1_mac.adr_ack_cnt_confirmed_frame = 1
    /\ lr1_mac.radio_process_state = "TXON"

---------------------------------------------------------------------------
(* The receive windows in time: a device, joined or not, sends a frame and *)
(* the supervisor configures the windows at instants around the start of   *)
(* each window.  The RTC may advance by a millisecond while                *)
(* lr1_stack_mac_rx_timer_configure runs.  The windows deliver frames of   *)
(* every MType, for the device and for another one.                        *)

\* The number of uplinks of a run.
MaxRxUplink == 1

\* By how many ms the RTC advances between the two reads of
\* lr1_stack_mac_rx_timer_configure.
RtcAdvance == 0..1

\* delay_ms of lr1_stack_mac_rx_timer_configure.
DelayMs(type) ==
    IF type = "RX1" THEN lr1_mac.rx1_delay_s * 1000
    ELSE (lr1_mac.rx1_delay_s * 1000) + 1000

\* The time at which the window `type` of the current cycle is to start:
\* isr_radio_timestamp + delay_ms - rx_offset_ms, with the rx_offset_ms
\* compute_rx_window_parameters gives for the window.
WindowStart(type) ==
    LET cfg == smtc_real_rx_config_set(lr1_mac, type)
        m1 == compute_rx_window_parameters(lr1_mac, cfg.sf, cfg.bw, BSP_CRYSTAL_ERROR,
                                           DelayMs(type), BSP_BOARD_DELAY_RX_SETTING_MS)
    IN lr1_mac.isr_radio_timestamp + DelayMs(type) - m1.rx_offset_ms

\* The instants the supervisor gets to run at: one ms before, at, and one ms
\* after the start of each window.
RxInstants == {WindowStart(type) + d : type \in {"RX1", "RX2"}, d \in -1..1}

\* The frames a window can deliver: frames with the MTypes of uplinks, a
\* data frame with a DevStatusReq for the device and the same for another
\* address, a Join-Accept.
RxFrames ==
    {DataDown(mtype, DevAddr, 0, 1, <<>>, FALSE, 0, <<>>, TRUE, U32(0, 1)) :
        mtype \in {JOIN_REQUEST, UNCONF_DATA_UP, CONF_DATA_UP, REJOIN_REQUEST}}
    \cup {DataDown(UNCONF_DATA_DOWN, addr, 0, 1, DevStatusReq, FALSE, 0, <<>>, TRUE,
                   U32(0, 1)) : addr \in {DevAddr, DevAddr + 1}}
    \cup {Assigned(JoinAcc(JOIN_ACCEPT, 0, 0, 0, TRUE, TRUE))}

InitRx ==
    /\ lr1_mac \in {lr1_stack_mac_init(smtc_real_config(ZeroMac), 0), JoinedSession(1)}
    /\ rp_task = NoTask
    /\ now = 0
    /\ sup = [rx_pending |-> FALSE, rx_packet_type |-> "NO_MORE_VALID_RX_PACKET",
              nb_uplink |-> 0]
    /\ last = Done("init", "", "", FALSE, <<>>)

\* lr1_stack_mac_tx_radio_start, for the MaxRxUplink uplinks of a run.
RxTxRadioStart ==
    LET enqueued == rp_task.type = "NONE"
    IN /\ ~Working
       /\ lr1_mac.tx_payload_size > 0
       /\ sup.nb_uplink < MaxRxUplink
       /\ lr1_mac' = lr1_stack_mac_tx_radio_start(lr1_mac, enqueued)
       /\ rp_task' = IF enqueued
                     THEN [type |-> "TX", state |-> "ASAP", start_time_ms |-> now]
                     ELSE rp_task
       /\ last' = Done("tx_radio_start", "", IF enqueued THEN "OK" ELSE "BUSY", FALSE,
                       Pre(lr1_mac, {"radio_process_state", "adr_ack_cnt",
                                     "adr_ack_cnt_confirmed_frame"}))
       /\ sup' = [sup EXCEPT !.nb_uplink = IF enqueued THEN @ + 1 ELSE @]
       /\ UNCHANGED now

\* The RTC advances to the next instant the supervisor runs at, while a
\* window waits to be configured.
Elapse(t) ==
    /\ ~Working
    /\ rp_task.type = "NONE"
    /\ lr1_mac.radio_process_state \in {"TXFINISHED", "RX1FINISHED"}
    /\ t \in RxInstants
    /\ t > now
    /\ now' = t
    /\ UNCHANGED <<lr1_mac, rp_task, sup, last>>

\* lr1_stack_mac_rx_timer_configure entered at `now`, the RTC having advanced
\* by d ms when it is read again.  The supervisor calls it once the task
\* before has ended, for the window the cycle has come to.
RxTimerConfigureAt(type, d) ==
    LET r == lr1_stack_mac_rx_timer_configure(lr1_mac, type, now, now + d)
        enqueued == r.task.type # "NONE" /\ rp_task.type = "NONE"
    IN /\ ~Working
       /\ rp_task.type = "NONE"
       /\ \/ type = "RX1" /\ lr1_mac.radio_process_state = "TXFINISHED"
          \/ type = "RX2" /\ lr1_mac.radio_process_state = "RX1FINISHED"
       /\ lr1_mac' = r.m
       /\ rp_task' = IF enqueued THEN r.task ELSE rp_task
       /\ now' = now + d
       /\ last' = Done("rx_timer_configure", type,
                       IF r.task.type = "NONE" THEN "MISSED"
                       ELSE IF enqueued THEN "OK" ELSE "BUSY", FALSE,
                       [radio_process_state |-> lr1_mac.radio_process_state,
                        tcurrent_ms |-> now])
       /\ UNCHANGED sup

NextRx ==
    \/ JoinRequestBuild
    \/ PayloadSend(UNCONF_DATA_UP)
    \/ RxTxRadioStart
    \/ \E t \in RxInstants : Elapse(t)
    \/ \E type \in {"RX1", "RX2"} : \E d \in RtcAdvance : RxTimerConfigureAt(type, d)
    \/ \E status \in {"TX_DONE", "RX_PACKET", "RX_TIMEOUT", "ABORTED"} :
          \E f \in IF status = "RX_PACKET" THEN RxFrames ELSE {NoFrame} :
             RpCallbackAny(status, f)
    \/ RxFrameDecode
    \/ JoinAccept
    \/ CmdParse

SpecRx == InitRx /\ [][NextRx]_vars

---------------------------------------------------------------------------
(* Properties of the receive windows, under SpecRx.                        *)

\* The frame in the receive buffer fails the test of
\* lr1_stack_mac_downlink_check_under_it: the MType of an uplink, or the
\* device is joined and the frame is for another address.
RejectedUnderIt ==
    \/ lr1_mac.rx_payload.mtype
           \in {JOIN_REQUEST, UNCONF_DATA_UP, CONF_DATA_UP, REJOIN_REQUEST}
    \/ /\ lr1_mac.join_status = "JOINED"
       /\ lr1_mac.rx_payload.hdr_addr # lr1_mac.dev_addr

\* C18: after a callback that delivered a packet the pre-check rejects,
\* planner_status is RX_TIMEOUT and radio_process_state is the state a
\* callback with the status RX_TIMEOUT gives from the state before.
C18_RejectedPacketIsTimeout ==
    (/\ last.op = "rp_callback"
     /\ last.arg = "RX_PACKET"
     /\ RejectedUnderIt)
    => /\ lr1_mac.planner_status = "RX_TIMEOUT"
       /\ lr1_mac.radio_process_state =
              lr1_stack_mac_rp_callback(
                  [lr1_mac EXCEPT !.radio_process_state = last.pre.radio_process_state],
                  "RX_TIMEOUT", now, NoFrame, now).m.radio_process_state

\* C18: the first window of a joined device has delivered a data frame for
\* another address.
C18_Witness ==
    /\ last.op = "rp_callback"
    /\ last.arg = "RX_PACKET"
    /\ lr1_mac.join_status = "JOINED"
    /\ lr1_mac.rx_payload.mtype = UNCONF_DATA_DOWN
    /\ lr1_mac.rx_payload.hdr_addr # lr1_mac.dev_addr
    /\ last.pre.radio_process_state = "TXFINISHED"
    /\ lr1_mac.radio_process_state = "RX1FINISHED"
    /\ lr1_mac.planner_status = "RX_TIMEOUT"

\* The time left until the start of the window when the last
\* lr1_stack_mac_rx_timer_configure was entered.
TimeLeft == WindowStart(last.arg) - last.pre.tcurrent_ms

\* C19: lr1_stack_mac_rx_timer_configure declares the window missed when the
\* time left until its start is zero or negative: no task is enqueued and
\* the state goes to RX1FINISHED for RX1 and to IDLE for RX2; when the time
\* left is positive the task is handed to the planner and the state stays.
C19_MissedWhenNothingLeft ==
    last.op = "rx_timer_configure" =>
        IF TimeLeft <= 0
        THEN /\ last.ret = "MISSED"
             /\ lr1_mac.radio_process_state =
                    IF last.arg = "RX1" THEN "RX1FINISHED" ELSE "IDLE"
        ELSE /\ last.ret \in {"OK", "BUSY"}
             /\ lr1_mac.radio_process_state = last.pre.radio_process_state

\* C20: the task of an armed window is SCHEDULE and starts at
\* isr_radio_timestamp + rx1_delay_s * 1000 - rx_offset_ms for RX1 and 1000 ms
\* later for RX2, whenever lr1_stack_mac_rx_timer_configure was called.
C20_StartTimeFromTxDone ==
    (last.op = "rx_timer_configure" /\ last.ret = "OK")
    => /\ rp_task.state = "SCHEDULE"
       /\ rp_task.start_time_ms =
              lr1_mac.isr_radio_timestamp
              + (IF last.arg = "RX1" THEN lr1_mac.rx1_delay_s * 1000
                 ELSE lr1_mac.rx1_delay_s * 1000 + 1000)
              - lr1_mac.rx_offset_ms

---------------------------------------------------------------------------
(* The functions whose result depends on their arguments alone:            *)
(* compute_rx_window_parameters, lr1_stack_mac_cmd_ans_cut and             *)
(* lr1_stack_network_next_free_duty_cycle_ms_get, each called on arguments *)
(* drawn from its whole range.                                             *)

\* The longest sequence of MAC answers handed to lr1_stack_mac_cmd_ans_cut,
\* and the largest max_allowed_size.
MaxAnswers == 4
MaxCutSize == 13

\* lr1_stack_network_next_free_duty_cycle_ms_get, from the two fields of the
\* object it reads and rtc_now = bsp_rtc_get_time_ms().  The uint32_t sums
\* and differences are taken on halves of 16 bits; the result is the bit
\* pattern of the int32_t returned.
lr1_stack_network_next_free_duty_cycle_ms_get(tx_duty_cycle_time_off_ms, tx_duty_cycle_timestamp_ms, rtc_now) ==
    LET add(x, y) == U32((x.hi + y.hi + (x.lo + y.lo) \div 65536) % 65536,
                         (x.lo + y.lo) % 65536)
        sub(x, y) == U32((x.hi - y.hi - (IF x.lo < y.lo THEN 1 ELSE 0)) % 65536,
                         (x.lo - y.lo) % 65536)
        delta_t == IF ~U32Less(rtc_now, tx_duty_cycle_timestamp_ms)
                   THEN sub(rtc_now, tx_duty_cycle_timestamp_ms)
                   ELSE add(sub(U32_MAX, tx_duty_cycle_timestamp_ms), rtc_now)
    IN IF U32Less(U32(0, 0), tx_duty_cycle_time_off_ms)
       THEN IF U32Less(tx_duty_cycle_time_off_ms, delta_t)
            THEN U32(0, 0)
            ELSE sub(tx_duty_cycle_time_off_ms, delta_t)
       ELSE U32(0, 0)

\* The times since the first Join-Request at which lr1_stack_mac_update is
\* called, in seconds: around the end of the first hour and of the eleventh.
JoinElapsed == {0, 1, 3599, 3600, 3601, 39599, 39600, 39601, 100000}

\* sup.fn is the function the run calls, once.
InitFn ==
    /\ lr1_mac = JoinedSession(1)
    /\ rp_task = NoTask
    /\ now = 0
    /\ \E fn \in {"compute_rx_window_parameters", "cmd_ans_cut",
                   "next_free_duty_cycle_ms_get", "join_accept", "cmd_parse",
                   "update", "join_request_build", "rp_callback"} :
          sup = [fn |-> fn, called |-> FALSE]
    /\ last = Done("init", "", "", FALSE, <<>>)

\* compute_rx_window_parameters( lr1_mac, sf, bw, BSP_CRYSTAL_ERROR, delay_ms,
\* BSP_BOARD_DELAY_RX_SETTING_MS, LORA ).
ComputeRxWindowParameters(sf, bw_temp, rx_delay_ms) ==
    /\ sup.fn = "compute_rx_window_parameters" /\ ~sup.called
    /\ sup' = [sup EXCEPT !.called = TRUE]
    /\ lr1_mac' = compute_rx_window_parameters(lr1_mac, sf, bw_temp, BSP_CRYSTAL_ERROR,
                                               rx_delay_ms, BSP_BOARD_DELAY_RX_SETTING_MS)
    /\ last' = Done("compute_rx_window_parameters",
                    [sf |-> sf, bw_temp |-> bw_temp, rx_delay_ms |-> rx_delay_ms],
                    "", FALSE, <<>>)
    /\ UNCHANGED <<rp_task, now>>

\* lr1_stack_mac_cmd_ans_cut on the answers to the commands cids, as the
\* parsers write them: the identifier, then the rest of the answer (here
\* 0xFF, which is no identifier).
CmdAnsCut(cids, max_allowed_size) ==
    LET RECURSIVE AnswerBytes(_)
        AnswerBytes(c) ==
            IF c = <<>> THEN <<>>
            ELSE <<Head(c)>> \o [i \in 1..(lr1mac_cmd_mac_ans_size(Head(c)) - 1) |-> 255]
                 \o AnswerBytes(Tail(c))
        bytes == AnswerBytes(cids)
        nwk_ans == WrSeq(EmptyBuf, 0, bytes)
    IN /\ sup.fn = "cmd_ans_cut" /\ ~sup.called
       /\ sup' = [sup EXCEPT !.called = TRUE]
       /\ last' = Done("cmd_ans_cut",
                       [cids |-> cids, max_allowed_size |-> max_allowed_size],
                       lr1_stack_mac_cmd_ans_cut(nwk_ans, Len(bytes), max_allowed_size),
                       FALSE, <<>>)
       /\ UNCHANGED <<lr1_mac, rp_task, now>>

\* lr1_stack_network_next_free_duty_cycle_ms_get with the back-off time_off
\* started at timestamp, called when the RTC reads rtc_now.
NextFreeDutyCycleMsGet(time_off, timestamp, rtc_now) ==
    /\ sup.fn = "next_free_duty_cycle_ms_get" /\ ~sup.called
    /\ sup' = [sup EXCEPT !.called = TRUE]
    /\ last' = Done("next_free_duty_cycle_ms_get",
                    [time_off |-> time_off, timestamp |-> timestamp, rtc_now |-> rtc_now],
                    lr1_stack_network_next_free_duty_cycle_ms_get(time_off, timestamp, rtc_now),
                    FALSE, <<>>)
    /\ UNCHANGED <<lr1_mac, rp_task, now>>

\* lr1_stack_mac_join_accept on a Join-Accept whose RxDelay byte is rx_delay.
JoinAcceptRxDelay(rx_delay) ==
    /\ sup.fn = "join_accept" /\ ~sup.called
    /\ sup' = [sup EXCEPT !.called = TRUE]
    /\ lr1_mac' = lr1_stack_mac_join_accept(
                      [lr1_mac EXCEPT !.rx_payload =
                          Assigned(JoinAcc(JOIN_ACCEPT, 0, 0, rx_delay, FALSE, TRUE))], now)
    /\ last' = Done("join_accept", rx_delay, "", FALSE, <<>>)
    /\ UNCHANGED <<rp_task, now>>

\* lr1_stack_mac_cmd_parse on a RXTimingSetupReq whose Settings byte is
\* settings, as lr1_stack_mac_rx_frame_decode leaves it in nwk_payload.
RxTimingSetupReq(settings) ==
    LET r == lr1_stack_mac_cmd_parse(
                 [lr1_mac EXCEPT !.nwk_payload =
                                     WrSeq(@, 0, <<RXTIMING_SETUP_REQ, settings>>),
                                 !.nwk_payload_size = RXTIMING_SETUP_REQ_SIZE])
    IN /\ sup.fn = "cmd_parse" /\ ~sup.called
       /\ sup' = [sup EXCEPT !.called = TRUE]
       /\ lr1_mac' = r.m
       /\ last' = Done("cmd_parse", settings, r.status, FALSE, <<>>)
       /\ UNCHANGED <<rp_task, now>>

\* lr1_stack_mac_update on a device that has not joined, whose first
\* Join-Request was sent at first_join_timestamp and which sends at tx_sf,
\* when bsp_rtc_get_time_s() reads current_time_s.
UpdateNotJoined(first_join_timestamp, current_time_s, tx_sf) ==
    LET m == [lr1_stack_mac_init(smtc_real_config(ZeroMac), 0) EXCEPT
                 !.first_join_timestamp = first_join_timestamp, !.tx_sf = tx_sf]
        r == lr1_stack_mac_update(m, current_time_s)
    IN /\ sup.fn = "update" /\ ~sup.called
       /\ sup' = [sup EXCEPT !.called = TRUE]
       /\ lr1_mac' = r.m
       /\ last' = Done("update", current_time_s, r.m.type_of_ans_to_send, r.issue, <<>>)
       /\ UNCHANGED <<rp_task, now>>

\* lr1_stack_mac_join_request_build on a device whose earlier Join-Requests
\* have left dev_nonce in the object.
JoinRequestBuildFrom(dev_nonce) ==
    /\ sup.fn = "join_request_build" /\ ~sup.called
    /\ sup' = [sup EXCEPT !.called = TRUE]
    /\ lr1_mac' = lr1_stack_mac_join_request_build(
                      [lr1_stack_mac_init(smtc_real_config(ZeroMac), 0) EXCEPT
                          !.dev_nonce = dev_nonce])
    /\ last' = Done("join_request_build", dev_nonce, "", FALSE, <<>>)
    /\ UNCHANGED <<rp_task, now>>

\* lr1_stack_mac_rp_callback when rp_get_status gives status, with the layer
\* in radio_process_state; the receive buffer holds no frame of the device.
RpCallbackOn(status, radio_process_state) ==
    LET r == lr1_stack_mac_rp_callback(
                 [lr1_mac EXCEPT !.radio_process_state = radio_process_state],
                 status, now, NoFrame, now)
    IN /\ sup.fn = "rp_callback" /\ ~sup.called
       /\ sup' = [sup EXCEPT !.called = TRUE]
       /\ lr1_mac' = r.m
       /\ last' = Done("rp_callback", status, "", r.issue,
                       [radio_process_state |-> radio_process_state])
       /\ UNCHANGED <<rp_task, now>>

\* Spreading factors 5..12, the bandwidths of lr1mac_bandwidth_t in kHz and
\* the delays of RX1 (RxDelay 1..15 s) and RX2 (one second later); answers of
\* one, two and three bytes; instants on both sides of the wrap of the RTC;
\* every value of a received byte.
NextFn ==
    /\ ~sup.called
    /\ \/ \E sf \in 5..12, bw_temp \in {125, 250, 500, 800, 1600}, s \in 1..16 :
             ComputeRxWindowParameters(sf, bw_temp, s * 1000)
       \/ \E n \in 0..MaxAnswers, max_allowed_size \in 0..MaxCutSize :
             \E cids \in [1..n -> {DUTY_CYCLE_REQ, LINK_ADR_REQ, DEV_STATUS_REQ}] :
                CmdAnsCut(cids, max_allowed_size)
       \/ \E time_off \in {U32(0, 0), U32(0, 1), U32(0, 1000), U32(54, 61056)},
             timestamp, rtc_now \in {U32(0, 0), U32(0, 1), U32(0, 1000), U32(0, 2000),
                                     U32(65535, 64536), U32(65535, 65535)} :
             NextFreeDutyCycleMsGet(time_off, timestamp, rtc_now)
       \/ \E rx_delay \in 0..255 : JoinAcceptRxDelay(rx_delay)
       \/ \E settings \in 0..255 : RxTimingSetupReq(settings)
       \/ \E first_join_timestamp \in {0, 1000}, elapsed \in JoinElapsed, tx_sf \in 5..12 :
             UpdateNotJoined(first_join_timestamp, first_join_timestamp + elapsed, tx_sf)
       \/ \E dev_nonce \in 0..65535 : JoinRequestBuildFrom(dev_nonce)
       \/ \E status \in {"TX_DONE", "RX_PACKET", "RX_TIMEOUT", "RX_CRC_ERROR", "ABORTED",
                          "CAD_POSITIVE", "UNKNOWN"},
             radio_process_state \in {"IDLE", "TXON", "TXFINISHED", "RX1FINISHED"} :
             RpCallbackOn(status, radio_process_state)

SpecFn == InitFn /\ [][NextFn]_vars

---------------------------------------------------------------------------
(* Properties of the receive window width, under SpecFn.                   *)

\* clock_accuracy * rx_delay_ms / 1000 of the last call, in integer
\* arithmetic.
ErrMs == (BSP_CRYSTAL_ERROR * last.arg.rx_delay_ms) \div 1000

\* C21 as stated: rx_window_symb is
\* max(6, 2*6 - 8 + ceil(2 * err_ms * BW_kHz / 2^SF) + 1), hence at least 6.
C21_WindowSymbCeil ==
    last.op = "compute_rx_window_parameters" =>
        /\ lr1_mac.rx_window_symb =
               MaxOf(6, 2 * 6 - 8
                        + CeilDiv(2 * ErrMs * last.arg.bw_temp, Pow2(last.arg.sf)) + 1)
        /\ lr1_mac.rx_window_symb >= 6

\* C21: rx_window_symb is max(6, 2*6 - 8 + floor(2 * err_ms * BW_kHz / 2^SF) + 1)
\* with err_ms = clock_accuracy * delay_ms / 1000 in integer arithmetic, hence
\* at least 6, for every SF in 5..12, every bandwidth and every RxDelay.
C21_WindowSymbFloor ==
    last.op = "compute_rx_window_parameters" =>
        /\ lr1_mac.rx_window_symb =
               MaxOf(6, 2 * 6 - 8
                        + ((2 * ErrMs * last.arg.bw_temp) \div Pow2(last.arg.sf)) + 1)
        /\ lr1_mac.rx_window_symb >= 6

\* C21: SF7 at 125 kHz one second after the uplink: 2 * 10 * 125 / 128 is
\* 19.53, and the window is 4 + 19 + 1 = 24 symbols wide.
C21_Witness ==
    /\ last.op = "compute_rx_window_parameters"
    /\ last.arg = [sf |-> 7, bw_temp |-> 125, rx_delay_ms |-> 1000]
    /\ lr1_mac.rx_window_symb = 24

---------------------------------------------------------------------------
(* Properties of lr1_stack_mac_cmd_ans_cut, under SpecFn.                  *)

\* The total length of the first k answers to the commands cids.
RECURSIVE PrefixSize(_, _)
PrefixSize(cids, k) ==
    IF k = 0 THEN 0
    ELSE PrefixSize(cids, k - 1) + lr1mac_cmd_mac_ans_size(cids[k])

\* C28: the size lr1_stack_mac_cmd_ans_cut returns is at most
\* max_allowed_size, at most the input size, and is the total length of the
\* longest prefix of whole answers that fits in max_allowed_size.
C28_CutAtCommandBoundary ==
    last.op = "cmd_ans_cut" =>
        LET cids == last.arg.cids
            max_allowed_size == last.arg.max_allowed_size
        IN /\ last.ret <= max_allowed_size
           /\ last.ret <= PrefixSize(cids, Len(cids))
           /\ \E k \in 0..Len(cids) :
                 /\ last.ret = PrefixSize(cids, k)
                 /\ k < Len(cids) => PrefixSize(cids, k + 1) > max_allowed_size

\* C28: a LinkADRAns, a DevStatusAns and a DutyCycleAns, six bytes, cut to
\* four: the DevStatusAns does not fit and the size returned is two.
C28_Witness ==
    /\ last.op = "cmd_ans_cut"
    /\ last.arg.cids = <<LINK_ADR_REQ, DEV_STATUS_REQ, DUTY_CYCLE_REQ>>
    /\ last.arg.max_allowed_size = 4
    /\ last.ret = 2

---------------------------------------------------------------------------
(* Properties of lr1_stack_network_next_free_duty_cycle_ms_get, under      *)
(* SpecFn.                                                                 *)

\* (a - b) mod 2^32 of two uint32_t.
U32Diff(a, b) ==
    U32((a.hi - b.hi - (IF a.lo < b.lo THEN 1 ELSE 0)) % 65536, (a.lo - b.lo) % 65536)

\* C30: lr1_stack_network_next_free_duty_cycle_ms_get returns
\* max(0, time_off_ms - ((now - timestamp) mod 2^32)), also when the RTC has
\* wrapped since the timestamp, and 0 when tx_duty_cycle_time_off_ms is 0.
C30_TimeOffLeftWrapSafe ==
    last.op = "next_free_duty_cycle_ms_get" =>
        LET elapsed == U32Diff(last.arg.rtc_now, last.arg.timestamp)
        IN last.ret = IF U32Less(last.arg.time_off, elapsed) THEN U32(0, 0)
                      ELSE U32Diff(last.arg.time_off, elapsed)

---------------------------------------------------------------------------
(* Properties of RxDelay, under SpecFn.                                    *)

\* C22: after lr1_stack_mac_join_accept and after a RXTimingSetupReq parsed
\* by lr1_stack_mac_cmd_parse, rx1_delay_s is in 1..15, whatever the byte
\* received: 0 gives 1, a Join-Accept byte above 15 gives 15, a byte in
\* 1..15 is taken as it is, and the RXTimingSetupReq keeps the low four bits.
C22_RxDelayInRange ==
    /\ last.op \in {"join_accept", "cmd_parse"} => lr1_mac.rx1_delay_s \in 1..15
    /\ last.op = "join_accept" =>
           lr1_mac.rx1_delay_s = IF last.arg = 0 THEN 1
                                 ELSE IF last.arg > 15 THEN 15 ELSE last.arg
    /\ last.op = "cmd_parse" =>
           lr1_mac.rx1_delay_s = IF last.arg % 16 = 0 THEN 1 ELSE last.arg % 16

\* C22: a Join-Accept whose RxDelay byte is 200 has left a delay of 15 s.
C22_Witness ==
    /\ last.op = "join_accept"
    /\ last.arg = 200
    /\ lr1_mac.rx1_delay_s = 15

---------------------------------------------------------------------------
(* A joined session that receives MAC commands: the first downlink of the  *)
(* session carries a command stream, in FOpts or as the payload of port 0, *)
(* and the downlinks after it are those of AckFrames.                      *)

\* The first downlinks: every combination of a valid and an invalid field in
\* a LinkADRReq, a RXParamSetupReq, a NewChannelReq and a DLChannelReq, each
\* followed by a DevStatusReq; runs of two, three and eight LinkADRReq; and
\* streams that mix commands with sticky and with plain answers.
CmdFrames ==
    LET Freq(hz) == <<(hz \div 100) % 256, (hz \div 25600) % 256, (hz \div 6553600) % 256>>
        LinkADR(dr, pow, mask, cntl, nb) ==
            <<LINK_ADR_REQ, dr * 16 + pow, mask % 256, mask \div 256, cntl * 16 + nb>>
        RXParamSetup(off, dr, hz) == <<RXPARRAM_SETUP_REQ, off * 16 + dr>> \o Freq(hz)
        NewChannel(idx, hz, min, max) ==
            <<NEW_CHANNEL_REQ, idx>> \o Freq(hz) \o <<max * 16 + min>>
        DLChannel(idx, hz) == <<DL_CHANNEL_REQ, idx>> \o Freq(hz)
        RXTimingSetup == <<RXTIMING_SETUP_REQ, 2>>
        TXParamSetup == <<TXPARAM_SETUP_REQ, 5>>
        DutyCycle == <<DUTY_CYCLE_REQ, 3>>
        Block1 == LinkADR(1, 1, 1, 0, 3)
        Block2 == LinkADR(3, 2, 3, 0, 2)
        RECURSIVE Blocks(_)
        Blocks(n) == IF n = 0 THEN <<>> ELSE Block1 \o Blocks(n - 1)
        Streams ==
            {LinkADR(dr, pow, mask, cntl, 2) \o DevStatusReq :
                 dr \in {3, 7}, pow \in {2, 9}, mask \in {3, 32}, cntl \in {0, 5}}
            \cup {LinkADR(3, 2, 0, 0, 2) \o DevStatusReq, LinkADR(3, 2, 0, 6, 2) \o DevStatusReq}
            \cup {RXParamSetup(off, dr, hz) \o DevStatusReq :
                      off \in {1, 6}, dr \in {3, 9}, hz \in {869525000, 100}}
            \cup {NewChannel(idx, hz, min, max) \o DevStatusReq :
                      idx \in {3, 1}, hz \in {867100000, 100}, min \in {0, 6}, max \in {5}}
            \cup {DLChannel(idx, hz) \o DevStatusReq : idx \in {0, 5}, hz \in {869525000, 100}}
            \cup {b1 \o b2 : b1 \in {Block1, LinkADR(1, 1, 1, 5, 3), LinkADR(1, 1, 0, 0, 3)},
                             b2 \in {Block2, LinkADR(7, 2, 3, 0, 2)}}
            \cup {Block1 \o Block1 \o Block2, Blocks(7) \o Block2}
            \cup {RXTimingSetup \o DevStatusReq, DevStatusReq \o RXTimingSetup,
                  DutyCycle \o RXParamSetup(1, 3, 869525000) \o DevStatusReq \o TXParamSetup,
                  DLChannel(0, 869525000) \o NewChannel(3, 867100000, 0, 5) \o Block2,
                  RXTimingSetup \o TXParamSetup}
    IN {IF Len(s) <= 15
        THEN DataDown(UNCONF_DATA_DOWN, DevAddr, 0, 1, s, FALSE, 0, <<>>, TRUE, U32(0, 1))
        ELSE DataDown(UNCONF_DATA_DOWN, DevAddr, 0, 1, <<>>, TRUE, PORTNWK, s, TRUE, U32(0, 1)) :
        s \in Streams}

\* The session starts with one transmission per uplink.
InitCmd == InitData /\ lr1_mac.nb_trans = 1

\* The supervisor runs one cycle after the other: payload, transmission, RX1,
\* RX2 when RX1 has timed out, update.  The network sends its commands in
\* the RX1 window of the first uplink.
NextCmd ==
    \/ last.op \in {"init", "update"} /\ PayloadSend(UNCONF_DATA_UP)
    \/ last.op \in {"payload_send", "update"} /\ TxRadioStart
    \/ \E type \in {"RX1", "RX2"} :
          /\ lr1_mac.radio_process_state = (IF type = "RX1" THEN "TXFINISHED" ELSE "RX1FINISHED")
          /\ RxTimerConfigure(type)
    \/ \E status \in {"TX_DONE", "RX_PACKET", "RX_TIMEOUT"} :
          \E f \in IF status # "RX_PACKET" THEN {NoFrame}
                   ELSE IF sup.nb_uplink = 1 THEN CmdFrames ELSE AckFrames :
             /\ sup.nb_uplink = 1 /\ status = "RX_PACKET" => lr1_mac.radio_process_state = "TXFINISHED"
             /\ RpCallbackAny(status, f)
    \/ RxFrameDecode
    \/ CmdParse
    \/ Update

SpecCmd == InitCmd /\ [][NextCmd]_vars

---------------------------------------------------------------------------
(* Properties of the MAC command parsers, checked under SpecCmd.           *)

\* The command stream lr1_stack_mac_cmd_parse is about to read.
Stream(m) == RdSeq(m.nwk_payload, 0, m.nwk_payload_size)

\* The stream s is the command cid, of size bytes, followed by a DevStatusReq.
OneThenDevStatus(s, cid, size) ==
    Len(s) = size + 1 /\ s[1] = cid /\ s[size + 1] = DEV_STATUS_REQ

\* The channel i is defined in the object m.
Defined(m, i) == i < NUMBER_OF_CHANNEL /\ m.channel[i].tx_frequency # 0

\* The channel mask of the LinkADRReq block at byte at of s (1-based) is
\* acceptable for the object m: ChMaskCntl is 0 with a mask that enables
\* only defined channels and at least one, or ChMaskCntl is 6.
MaskValid(m, s, at) ==
    LET mask == s[at + 2] + s[at + 3] * 256
        cntl == Shr(s[at + 4], 4) % 8
    IN \/ cntl = 6
       \/ cntl = 0 /\ mask # 0 /\ \A i \in 0..(NUMBER_OF_CHANNEL - 1) :
                                      Bit(mask, i) = 1 => Defined(m, i)

\* The data rate dr is in the range of no defined channel of m.
DrOutOfRange(m, dr) ==
    \A i \in 0..(NUMBER_OF_CHANNEL - 1) :
        Defined(m, i) => dr < m.channel[i].min_dr \/ dr > m.channel[i].max_dr

\* A field of the command at the head of s fails its validation.
InvalidCommand(m, s) ==
    \/ /\ s[1] = LINK_ADR_REQ
       /\ \/ ~MaskValid(m, s, 1)
          \/ DrOutOfRange(m, Shr(s[2], 4))
          \/ s[2] % 16 > 7
    \/ /\ s[1] = RXPARRAM_SETUP_REQ
       /\ \/ Shr(s[2], 4) % 8 > 5
          \/ s[2] % 16 > 7
          \/ smtc_real_is_valid_rx_frequency(
                 (s[3] + s[4] * 256 + s[5] * 65536) * 100) = ERRORLORAWAN
    \/ /\ s[1] = NEW_CHANNEL_REQ
       /\ \/ s[2] < NUMBER_OF_DEFAULT_CHANNEL \/ s[2] >= NUMBER_OF_CHANNEL
          \/ smtc_real_is_valid_tx_frequency(
                 (s[3] + s[4] * 256 + s[5] * 65536) * 100) = ERRORLORAWAN
          \/ s[6] % 16 > 7 \/ Shr(s[6], 4) > 7 \/ Shr(s[6], 4) < s[6] % 16
    \/ /\ s[1] = DL_CHANNEL_REQ
       /\ \/ ~Defined(m, s[2])
          \/ smtc_real_is_valid_rx_frequency(
                 (s[3] + s[4] * 256 + s[5] * 65536) * 100) = ERRORLORAWAN

\* The parse of one command of the four kinds that carry a status, followed
\* by a DevStatusReq: the answer to the command with its status byte, then
\* the DevStatusAns, as the parse left them in m.
StatusOf(m, cid) ==
    IF cid \in {LINK_ADR_REQ, NEW_CHANNEL_REQ}
    THEN [cid |-> Rd(m.tx_fopts_data, 0), status |-> Rd(m.tx_fopts_data, 1),
          next |-> Rd(m.tx_fopts_data, 2), length |-> m.tx_fopts_length - 3]
    ELSE [cid |-> Rd(m.tx_fopts_datasticky, 0), status |-> Rd(m.tx_fopts_datasticky, 1),
          next |-> Rd(m.tx_fopts_data, 0), length |-> m.tx_fopts_lengthsticky]

\* C23: a LinkADRReq, RXParamSetupReq, NewChannelReq or DLChannelReq with a
\* field that fails its validation is answered with a status other than
\* all-ok (7 for the first two, 3 for the last two), leaves the session
\* parameters it targets as they were (TX power, NbTrans, ADR data rate and
\* the channel table; the RX1 offset, the RX2 data rate and frequency), does
\* not call the panic hook, and the parse goes on to the DevStatusReq behind
\* it, which is answered, and reaches the end of the stream.
C23_InvalidCommandRejected ==
    [][LET s == Stream(lr1_mac)
           a == StatusOf(lr1_mac', s[1])
       IN (/\ last'.op = "cmd_parse"
           /\ \/ OneThenDevStatus(s, LINK_ADR_REQ, LINK_ADR_REQ_SIZE)
              \/ OneThenDevStatus(s, RXPARRAM_SETUP_REQ, RXPARRAM_SETUP_REQ_SIZE)
              \/ OneThenDevStatus(s, NEW_CHANNEL_REQ, NEW_CHANNEL_REQ_SIZE)
              \/ OneThenDevStatus(s, DL_CHANNEL_REQ, DL_CHANNEL_REQ_SIZE)
           /\ InvalidCommand(lr1_mac, s))
          => /\ a.cid = s[1] /\ a.length = 2
             /\ a.status # (IF s[1] \in {LINK_ADR_REQ, RXPARRAM_SETUP_REQ} THEN 7 ELSE 3)
             /\ lr1_mac'.tx_power = lr1_mac.tx_power
             /\ lr1_mac'.nb_trans = lr1_mac.nb_trans
             /\ lr1_mac'.tx_data_rate_adr = lr1_mac.tx_data_rate_adr
             /\ lr1_mac'.channel = lr1_mac.channel
             /\ lr1_mac'.rx1_dr_offset = lr1_mac.rx1_dr_offset
             /\ lr1_mac'.rx2_data_rate = lr1_mac.rx2_data_rate
             /\ lr1_mac'.rx2_frequency = lr1_mac.rx2_frequency
             /\ ~last'.issue
             /\ last'.ret = "OKLORAWAN"
             /\ a.next = DEV_STATUS_REQ
             /\ lr1_mac'.nwk_payload_index = lr1_mac.nwk_payload_size]_vars

\* C23: a DLChannelReq for the undefined channel 5, with a valid frequency,
\* followed by a DevStatusReq, has been parsed and refused.
C23_Witness ==
    /\ last.op = "cmd_parse"
    /\ RdSeq(lr1_mac.nwk_payload, 0, 2) = <<DL_CHANNEL_REQ, 5>>
    /\ lr1_mac.nwk_payload_size = DL_CHANNEL_REQ_SIZE + 1
    /\ RdSeq(lr1_mac.tx_fopts_datasticky, 0, 2) = <<DL_CHANNEL_REQ, 1>>
    /\ lr1_mac.tx_fopts_lengthsticky = 2
    /\ lr1_mac.channel[5].rx1_frequency = 0

\* The number of LinkADRReq blocks at the head of the stream s, counted from n.
RECURSIVE NbLinkAdrReq(_, _)
NbLinkAdrReq(s, n) ==
    IF n * LINK_ADR_REQ_SIZE + LINK_ADR_REQ_SIZE <= Len(s) /\ s[n * LINK_ADR_REQ_SIZE + 1] = LINK_ADR_REQ
    THEN NbLinkAdrReq(s, n + 1) ELSE n

\* What the n LinkADRReq blocks at the head of s ask for, as validated for
\* the object m they are parsed in and the object m2 the parse leaves: the
\* channel mask is valid when every ChMaskCntl is defined and the mask of the
\* last block is valid, the data rate of the last block when a channel of the
\* mask the blocks have built takes it, the TX power of the last block when
\* it is at most 7.
LinkAdrValid(m, m2, s, n) ==
    LET at == (n - 1) * LINK_ADR_REQ_SIZE + 1
    IN [mask |-> /\ \A k \in 0..(n - 1) :
                        Shr(s[k * LINK_ADR_REQ_SIZE + 5], 4) % 8 \in {0, 6}
                 /\ MaskValid(m, s, at),
        dr |-> \E i \in 0..(NUMBER_OF_CHANNEL - 1) :
                   /\ Bit(m2.unwrapped_channel_mask, i) = 1
                   /\ Shr(s[at + 1], 4) >= m.channel[i].min_dr
                   /\ Shr(s[at + 1], 4) <= m.channel[i].max_dr,
        power |-> s[at + 1] % 16 <= 7]

B(ok) == IF ok THEN 1 ELSE 0

\* C24 as stated: in the status byte of every LinkADRAns, bit 2 tells that
\* the channel mask and ChMaskCntl are valid, bit 1 that the data rate is,
\* bit 0 that the TX power is.
C24_StatusBitsMaskDrPower ==
    [][LET s == Stream(lr1_mac)
           n == NbLinkAdrReq(s, 0)
           v == LinkAdrValid(lr1_mac, lr1_mac', s, n)
       IN last'.op = "cmd_parse" /\ n >= 1
          => /\ Rd(lr1_mac'.tx_fopts_data, 0) = LINK_ADR_REQ
             /\ Rd(lr1_mac'.tx_fopts_data, 1) = 4 * B(v.mask) + 2 * B(v.dr) + B(v.power)]_vars

\* C24, amended: in the status byte of every LinkADRAns, bit 0 tells that
\* the channel mask and ChMaskCntl are valid, bit 1 that the data rate is
\* acceptable for the channels of the mask, bit 2 that the TX power is valid;
\* an invalid field clears its bit and a valid field leaves its bit set.
C24_StatusBitsPowerDrMask ==
    [][LET s == Stream(lr1_mac)
           n == NbLinkAdrReq(s, 0)
           v == LinkAdrValid(lr1_mac, lr1_mac', s, n)
       IN last'.op = "cmd_parse" /\ n >= 1
          => /\ Rd(lr1_mac'.tx_fopts_data, 0) = LINK_ADR_REQ
             /\ Rd(lr1_mac'.tx_fopts_data, 1) = B(v.mask) + 2 * B(v.dr) + 4 * B(v.power)]_vars

\* C24: a LinkADRReq whose TX power 9 is the only invalid field has been
\* answered with the status 3: bit 2 is cleared, bits 1 and 0 are set.
C24_Witness ==
    /\ last.op = "cmd_parse"
    /\ RdSeq(lr1_mac.nwk_payload, 0, LINK_ADR_REQ_SIZE) = <<LINK_ADR_REQ, 3 * 16 + 9, 3, 0, 2>>
    /\ RdSeq(lr1_mac.tx_fopts_data, 0, 2) = <<LINK_ADR_REQ, 3>>

\* C25: in the status byte of every RXParamSetupAns, bit 2 tells that the
\* RX1 data-rate offset is valid, bit 1 that the RX2 data rate is, bit 0
\* that the RX2 frequency is; the answer is in the sticky answers.
C25_StatusBitsOffsetDrFreq ==
    [][LET s == Stream(lr1_mac)
       IN last'.op = "cmd_parse" /\ Len(s) >= RXPARRAM_SETUP_REQ_SIZE /\ s[1] = RXPARRAM_SETUP_REQ
          => /\ lr1_mac'.tx_fopts_lengthsticky >= 2
             /\ Rd(lr1_mac'.tx_fopts_datasticky, 0) = RXPARRAM_SETUP_REQ
             /\ Rd(lr1_mac'.tx_fopts_datasticky, 1) =
                    4 * B(smtc_real_is_valid_rx1_dr_offset(Shr(s[2], 4) % 8) = OKLORAWAN)
                    + 2 * B(smtc_real_is_valid_dr(s[2] % 16) = OKLORAWAN)
                    + B(smtc_real_is_valid_rx_frequency(
                            (s[3] + s[4] * 256 + s[5] * 65536) * 100) = OKLORAWAN)]_vars

\* C26: a run of n contiguous LinkADRReq blocks, alone in the stream or
\* followed by one DevStatusReq, is parsed as one request.  Exactly n
\* LinkADRAns are appended and all carry the same status; the parse index
\* has advanced by n request lengths when the parse comes to what follows
\* the run, so that it ends at the end of the stream.  When the mask, the
\* data rate, the TX power of the last block are valid and every ChMaskCntl
\* is defined, the status is 7, nb_trans, tx_data_rate_adr and tx_power are
\* those of the last block and the channels enabled are those of the mask the
\* blocks have built; otherwise the status is not 7 and these parameters
\* are as they were.
C26_LinkAdrBlocksAsOneRequest ==
    [][LET s == Stream(lr1_mac)
           n == NbLinkAdrReq(s, 0)
           rest == Len(s) - n * LINK_ADR_REQ_SIZE
           v == LinkAdrValid(lr1_mac, lr1_mac', s, n)
           at == (n - 1) * LINK_ADR_REQ_SIZE + 1
           status == Rd(lr1_mac'.tx_fopts_data, 1)
       IN (/\ last'.op = "cmd_parse" /\ n >= 1
           /\ rest = 0 \/ (rest = 1 /\ s[Len(s)] = DEV_STATUS_REQ))
          => /\ \A k \in 0..(n - 1) :
                    /\ Rd(lr1_mac'.tx_fopts_data, 2 * k) = LINK_ADR_REQ
                    /\ Rd(lr1_mac'.tx_fopts_data, 2 * k + 1) = status
             /\ lr1_mac'.tx_fopts_length = 2 * n + 3 * rest
             /\ rest = 1 => Rd(lr1_mac'.tx_fopts_data, 2 * n) = DEV_STATUS_REQ
             /\ lr1_mac'.nwk_payload_index = n * LINK_ADR_REQ_SIZE + rest
             /\ IF v.mask /\ v.dr /\ v.power
                THEN /\ status = 7
                     /\ lr1_mac'.nb_trans = s[at + 4] % 16
                     /\ lr1_mac'.tx_data_rate_adr = Shr(s[at + 1], 4)
                     /\ lr1_mac'.tx_power = s[at + 1] % 16
                     /\ \A i \in 0..(NUMBER_OF_CHANNEL - 1) :
                            lr1_mac'.channel[i].enabled =
                                (Bit(lr1_mac'.unwrapped_channel_mask, i) = 1)
                ELSE /\ status # 7
                     /\ lr1_mac'.nb_trans = lr1_mac.nb_trans
                     /\ lr1_mac'.tx_data_rate_adr = lr1_mac.tx_data_rate_adr
                     /\ lr1_mac'.tx_power = lr1_mac.tx_power
                     /\ lr1_mac'.channel = lr1_mac.channel]_vars

\* C26: a run of three valid LinkADRReq blocks has been parsed; the last one
\* asks for DR3, TX power 2, the channels 0 and 1 and NbTrans 2.
C26_Witness ==
    /\ last.op = "cmd_parse"
    /\ lr1_mac.nwk_payload_size = 3 * LINK_ADR_REQ_SIZE
    /\ lr1_mac.nwk_payload_index = 3 * LINK_ADR_REQ_SIZE
    /\ RdSeq(lr1_mac.nwk_payload, 0, 1) = <<LINK_ADR_REQ>>
    /\ RdSeq(lr1_mac.tx_fopts_data, 0, 6) = <<LINK_ADR_REQ, 7, LINK_ADR_REQ, 7, LINK_ADR_REQ, 7>>
    /\ lr1_mac.tx_fopts_length = 6
    /\ lr1_mac.nb_trans = 2 /\ lr1_mac.tx_data_rate_adr = 3 /\ lr1_mac.tx_power = 2
    /\ lr1_mac.channel[1].enabled /\ ~lr1_mac.channel[2].enabled

\* The size of the request cid in a downlink.
ReqSize(cid) ==
    CASE cid = LINK_ADR_REQ -> LINK_ADR_REQ_SIZE
      [] cid = DUTY_CYCLE_REQ -> DUTY_CYCLE_REQ_SIZE
      [] cid = RXPARRAM_SETUP_REQ -> RXPARRAM_SETUP_REQ_SIZE
      [] cid = DEV_STATUS_REQ -> DEV_STATUS_REQ_SIZE
      [] cid = NEW_CHANNEL_REQ -> NEW_CHANNEL_REQ_SIZE
      [] cid = RXTIMING_SETUP_REQ -> RXTIMING_SETUP_REQ_SIZE
      [] cid = TXPARAM_SETUP_REQ -> TXPARAM_SETUP_REQ_SIZE
      [] cid = DL_CHANNEL_REQ -> DL_CHANNEL_REQ_SIZE
      [] OTHER -> 0

\* The command identifiers of the requests in the stream s from byte i on.
RECURSIVE ReqCids(_, _)
ReqCids(s, i) ==
    IF i > Len(s) \/ ReqSize(s[i]) = 0 THEN <<>>
    ELSE <<s[i]>> \o ReqCids(s, i + ReqSize(s[i]))

\* The command identifiers of the answers in the sequence a from byte i on.
RECURSIVE AnsCids(_, _)
AnsCids(a, i) ==
    IF i > Len(a) \/ lr1mac_cmd_mac_ans_size(a[i]) = 0 THEN <<>>
    ELSE <<a[i]>> \o AnsCids(a, i + lr1mac_cmd_mac_ans_size(a[i]))

\* The MAC answers of the uplink the last lr1_stack_mac_update has prepared:
\* the payload of a network frame, or FOpts.
UplinkAnswers ==
    IF last.ret = "NWKFRAME_TOSEND"
    THEN RdSeq(lr1_mac.nwk_ans, 0, lr1_mac.nwk_ans_size)
    ELSE RdSeq(lr1_mac.tx_fopts_current_data, 0, lr1_mac.tx_fopts_current_length)

\* C27: in the uplink that the first lr1_stack_mac_update after a parse
\* prepares (the one that finds new answers in tx_fopts_data), the answers
\* are in the order of their requests in the downlink, each request of the
\* stream being answered by the answer of the same identifier.
C27_AnswersInOrderOfReceipt ==
    last.op = "update" /\ last.pre.tx_fopts_length > 0
        => AnsCids(UplinkAnswers, 1) = ReqCids(Stream(lr1_mac), 1)

\* C29: the sticky answers stay in the uplinks until a downlink is accepted.
\* Every lr1_stack_mac_update puts the sticky answers, followed by the new
\* answers of tx_fopts_data, into the uplink it prepares (FOpts, or the
\* payload of a network frame), keeps the sticky answers and drops the new
\* ones (tx_fopts_length = 0), so that the next update does not send these
\* again; the decode of an accepted downlink sets tx_fopts_lengthsticky to 0,
\* the decode of a rejected one leaves it; and no operation but these two
\* and lr1_stack_mac_cmd_parse writes the answers.
C29_StickyUntilAcceptedDownlink ==
    [][/\ last'.op = "update"
          => /\ UplinkAnswers' =
                    RdSeq(lr1_mac.tx_fopts_datasticky, 0, lr1_mac.tx_fopts_lengthsticky)
                    \o RdSeq(lr1_mac.tx_fopts_data, 0, lr1_mac.tx_fopts_length)
             /\ lr1_mac'.tx_fopts_lengthsticky = lr1_mac.tx_fopts_lengthsticky
             /\ lr1_mac'.tx_fopts_datasticky = lr1_mac.tx_fopts_datasticky
             /\ lr1_mac'.tx_fopts_length = 0
       /\ last'.op = "rx_frame_decode"
          => /\ lr1_mac'.tx_fopts_lengthsticky =
                    IF AcceptedDataFrame' THEN 0 ELSE lr1_mac.tx_fopts_lengthsticky
             /\ lr1_mac'.tx_fopts_length = lr1_mac.tx_fopts_length
       /\ last'.op \notin {"update", "rx_frame_decode", "cmd_parse"}
          => /\ lr1_mac'.tx_fopts_lengthsticky = lr1_mac.tx_fopts_lengthsticky
             /\ lr1_mac'.tx_fopts_datasticky = lr1_mac.tx_fopts_datasticky
             /\ lr1_mac'.tx_fopts_length = lr1_mac.tx_fopts_length]_vars

\* C29: the RXTimingSetupAns of the first downlink is in the FOpts of a second
\* uplink: the downlink received since had a wrong MIC, and the DevStatusAns
\* sent with the first of the two uplinks is not sent again.
C29_Witness ==
    /\ last.op = "update"
    /\ lr1_mac.fcnt_up = 2
    /\ last.pre.tx_fopts_lengthsticky = 1 /\ last.pre.tx_fopts_length = 0
    /\ last.pre.tx_fopts_current_length = 4
    /\ ~lr1_mac.rx_payload.mic_ok /\ lr1_mac.rx_payload.fcnt = 2
    /\ lr1_mac.tx_fopts_current_length = 1
    /\ RdSeq(lr1_mac.tx_fopts_current_data, 0, 1) = <<RXTIMING_SETUP_REQ>>

---------------------------------------------------------------------------
(* Properties of the join back-off, under SpecFn.                          *)

\* T of the last update: the time on air of a Join-Request at SF5 in ms,
\* shifted left by tx_sf - 5.
JoinToa == smtc_real_get_join_sf5_toa_in_ms * Pow2(lr1_mac.tx_sf - 5)

\* C31: an update of a device that has not joined sets
\* next_time_to_join_seconds to now + T/10 when now < first_join_timestamp +
\* 3600, to now + T when 3600 <= now - first_join_timestamp < 39600 and to
\* now + 10*T afterwards; the delay is at least T/10, and an update at any
\* later time gives a delay at least as long.
C31_JoinBackOff ==
    (last.op = "update" /\ lr1_mac.join_status = "NOT_JOINED") =>
        LET current_time_s == last.arg
            elapsed == current_time_s - lr1_mac.first_join_timestamp
            delay == lr1_mac.next_time_to_join_seconds - current_time_s
        IN /\ delay = (IF current_time_s < lr1_mac.first_join_timestamp + 3600
                       THEN JoinToa \div 10
                       ELSE IF 3600 <= elapsed /\ elapsed < 39600
                            THEN JoinToa ELSE 10 * JoinToa)
           /\ delay >= JoinToa \div 10
           /\ \A later \in JoinElapsed :
                  later >= elapsed =>
                      update_join(lr1_mac, lr1_mac.first_join_timestamp + later)
                              .next_time_to_join_seconds
                          - (lr1_mac.first_join_timestamp + later) >= delay

\* C31: an update 39599 s after the first Join-Request, at SF12: the back-off
\* is still T = 21 << 7 = 2688.
C31_Witness ==
    /\ last.op = "update" /\ lr1_mac.join_status = "NOT_JOINED"
    /\ lr1_mac.tx_sf = 12
    /\ last.arg - lr1_mac.first_join_timestamp = 39599
    /\ lr1_mac.next_time_to_join_seconds = last.arg + 2688
    /\ lr1_mac.retry_join_cpt = 1

\* C32: lr1_stack_mac_join_request_build uses a DevNonce greater than the
\* one of the Join-Request before it, hence than every earlier one, and
\* writes it little-endian at bytes 17 and 18 of a frame of 23 bytes.
C32_DevNonceIncreases ==
    last.op = "join_request_build" =>
        /\ lr1_mac.dev_nonce > last.arg
        /\ Rd(lr1_mac.tx_payload, 17) + 256 * Rd(lr1_mac.tx_payload, 18) = lr1_mac.dev_nonce
        /\ lr1_mac.tx_payload_size = 23

\* C33: when lr1_stack_mac_rp_callback reads a planner status that is none of
\* TX_DONE, RX_PACKET, RX_TIMEOUT, RX_CRC_ERROR and ABORTED, it calls
\* bsp_mcu_handle_lr1mac_issue.
C33_UnknownStatusIsFatal ==
    (/\ last.op = "rp_callback"
     /\ last.arg \notin {"TX_DONE", "RX_PACKET", "RX_TIMEOUT", "RX_CRC_ERROR", "ABORTED"})
    => last.issue

---------------------------------------------------------------------------
(* The uplink cycle with a planner that may refuse a task: one callback    *)
(* for each task it has accepted, and the supervisor calling               *)
(* lr1_stack_mac_rx_timer_configure once on entry to TXFINISHED and to     *)
(* RX1FINISHED, after it has worked on the frame a window has received.    *)

\* lr1_stack_mac_rx_timer_configure for the window the cycle has come to;
\* accepted is the answer of rp_task_enqueue in
\* lr1_stack_mac_rx_radio_start: RP_HOOK_STATUS_OK or not.
RxTimerConfigureAnswered(type, accepted) ==
    LET r == lr1_stack_mac_rx_timer_configure(lr1_mac, type, now, now)
        enqueued == r.task.type # "NONE" /\ accepted
    IN /\ ~Working
       /\ rp_task.type = "NONE"
       /\ lr1_mac.radio_process_state = (IF type = "RX1" THEN "TXFINISHED" ELSE "RX1FINISHED")
       /\ ~(last.op = "rx_timer_configure" /\ last.ret = "BUSY")
       /\ lr1_mac' = r.m
       /\ rp_task' = IF enqueued THEN r.task ELSE rp_task
       /\ last' = Done("rx_timer_configure", type,
                       IF r.task.type = "NONE" THEN "MISSED"
                       ELSE IF enqueued THEN "OK" ELSE "BUSY", FALSE,
                       Pre(lr1_mac, {"radio_process_state"}))
       /\ UNCHANGED <<now, sup>>

NextCycle ==
    \/ last.op \in {"init", "update"} /\ PayloadSend(UNCONF_DATA_UP)
    \/ last.op \in {"payload_send", "update"} /\ TxRadioStart
    \/ \E type \in {"RX1", "RX2"}, accepted \in BOOLEAN :
          RxTimerConfigureAnswered(type, accepted)
    \/ \E status \in {"TX_DONE", "RX_PACKET", "RX_TIMEOUT"} :
          \E f \in IF status = "RX_PACKET" THEN AckFrames ELSE {NoFrame} :
             RpCallbackAny(status, f)
    \/ RxFrameDecode
    \/ CmdParse
    \/ Update

\* The planner delivers the callback of a task it holds; the supervisor
\* works on a received frame and makes its call on entry to TXFINISHED and
\* to RX1FINISHED.  Each of these steps changes what the subscript names;
\* the last condition is on the step of CmdParse, told by what it does to
\* sup.
SpecCycle ==
    /\ InitData
    /\ [][NextCycle]_vars
    /\ WF_<<lr1_mac.radio_process_state, rp_task.type, last.op>>(
           \E status \in {"TX_DONE", "RX_PACKET", "RX_TIMEOUT"} :
              \E f \in IF status = "RX_PACKET" THEN AckFrames ELSE {NoFrame} :
                 RpCallbackAny(status, f))
    /\ WF_<<lr1_mac.radio_process_state, rp_task.type, last.op>>(
           \E type \in {"RX1", "RX2"}, accepted \in BOOLEAN :
              RxTimerConfigureAnswered(type, accepted))
    /\ WF_<<sup>>(RxFrameDecode)
    /\ WF_<<sup>>(/\ sup.rx_packet_type \in {"NWKRXPACKET", "USERRX_FOPTSPACKET"}
                  /\ sup' = [sup EXCEPT !.rx_packet_type = "NO_MORE_VALID_RX_PACKET"])

\* C34: every lr1_stack_mac_tx_radio_start that the planner has accepted is
\* followed, in the end, by radio_process_state = IDLE.
C34_CycleTerminates ==
    (last.op = "tx_radio_start" /\ last.ret = "OK")
        ~> (lr1_mac.radio_process_state = "IDLE")

\* C35: a lr1_stack_mac_update that builds the frame of MAC answers on port
\* 0 (it signals NWKFRAME_TOSEND) has incremented fcnt_up in the same call:
\* the new frame does not go out under the FCntUp of the frame before it.
C35_NwkFrameHasNewCounter ==
    (last.op = "update" /\ last.ret = "NWKFRAME_TOSEND")
        => /\ lr1_mac.tx_fport = PORTNWK
           /\ lr1_mac.fcnt_up = last.pre.fcnt_up + 1

\* C36: tx_ack_bit is 1 after a decode only when the frame decoded is a
\* ConfirmedDataDown that has passed the DevAddr, FCnt-window and MIC checks,
\* so that the next lr1_stack_mac_tx_frame_build sets FCtrl.ACK for such a
\* frame alone: a replayed ConfirmedDataDown, or one with a wrong MIC, leaves
\* tx_ack_bit at 0.
C36_AckOnlyForAcceptedConfirmed ==
    (last.op = "rx_frame_decode" /\ lr1_mac.tx_ack_bit = 1)
        => /\ lr1_mac.rx_payload.mtype = CONF_DATA_DOWN
           /\ AcceptedDataFrame

---------------------------------------------------------------------------
(* The session that hears nothing: consecutive uplinks, each with its two  *)
(* empty receive windows, of one kind of traffic for the whole run.        *)

\* The number of uplinks of a run: more than a run of alternating Confirmed
\* and Unconfirmed uplinks needs to count NO_RX_PACKET_CNT of them.
MaxSilentUplink == 5000

\* The kinds of traffic: the MType of the uplinks, in turn.
Traffic == {<<UNCONF_DATA_UP>>, <<CONF_DATA_UP>>, <<UNCONF_DATA_UP, CONF_DATA_UP>>}

InitSilent ==
    /\ \E traffic \in Traffic :
          sup = [rx_pending |-> FALSE, rx_packet_type |-> "NO_MORE_VALID_RX_PACKET",
                 nb_uplink |-> 0, traffic |-> traffic, step |-> "send", fatal |-> FALSE]
    /\ lr1_mac = JoinedSession(1)
    /\ rp_task = NoTask
    /\ now = 0
    /\ last = Done("init", "", "", FALSE, <<>>)

\* The application hands the next payload to send, as long as the fatal
\* hook has not been called.
SilentPayloadSend ==
    LET mtype == sup.traffic[(sup.nb_uplink % Len(sup.traffic)) + 1]
    IN /\ sup.step = "send"
       /\ ~sup.fatal
       /\ sup.nb_uplink < MaxSilentUplink
       /\ lr1_mac.radio_process_state = "IDLE"
       /\ lr1_mac' = lr1mac_core_payload_send(lr1_mac, mtype)
       /\ sup' = [sup EXCEPT !.step = "start"]
       /\ last' = Done("payload_send", "", "", FALSE,
                       Pre(lr1_mac, {"tx_fopts_current_length"}))
       /\ UNCHANGED <<rp_task, now>>

\* lr1_stack_mac_update, once the cycle is back in IDLE; sup.fatal keeps
\* that bsp_mcu_handle_lr1mac_issue has been called.
SilentUpdate ==
    LET r == lr1_stack_mac_update(lr1_mac, now \div 1000)
    IN /\ sup.step = "update"
       /\ rp_task.type = "NONE"
       /\ lr1_mac.radio_process_state = "IDLE"
       /\ lr1_mac' = r.m
       /\ sup' = [sup EXCEPT !.step = "send", !.fatal = r.issue]
       /\ last' = Done("update", "", r.m.type_of_ans_to_send, r.issue,
                       Pre(lr1_mac, {"adr_ack_cnt", "adr_ack_cnt_confirmed_frame"}))
       /\ UNCHANGED <<rp_task, now>>

NextSilent ==
    \/ SilentPayloadSend
    \/ AdrTxRadioStart
    \/ \E status \in {"TX_DONE", "RX_TIMEOUT"} : RpCallback(status, NoFrame)
    \/ \E type \in {"RX1", "RX2"} : RxTimerConfigureAnswered(type, TRUE)
    \/ SilentUpdate

\* The application goes on sending and the cycle of each uplink is run to
\* its end.  The steps of SilentPayloadSend, AdrTxRadioStart and
\* SilentUpdate are told by what they do to sup.step.
SpecSilent ==
    /\ InitSilent
    /\ [][NextSilent]_vars
    /\ WF_<<sup.step>>(/\ sup.step = "send" /\ ~sup.fatal /\ sup.nb_uplink < MaxSilentUplink
                       /\ sup' = [sup EXCEPT !.step = "start"])
    /\ WF_<<sup.step>>(/\ sup.step = "start"
                       /\ sup' = [sup EXCEPT !.step = "update", !.nb_uplink = @ + 1])
    /\ WF_<<sup.step>>(/\ sup.step = "update" /\ rp_task.type = "NONE"
                       /\ lr1_mac.radio_process_state = "IDLE"
                       /\ \E fatal \in BOOLEAN :
                             sup' = [sup EXCEPT !.step = "send", !.fatal = fatal])
    /\ WF_<<rp_task.type>>(\E status \in {"TX_DONE", "RX_TIMEOUT"} : RpCallback(status, NoFrame))
    /\ WF_<<lr1_mac.radio_process_state, rp_task.type>>(
           \E type \in {"RX1", "RX2"} : RxTimerConfigureAnswered(type, TRUE))

---------------------------------------------------------------------------
(* lr1_stack_mac_cmd_parse one iteration of its loop at a time, on byte    *)
(* streams of any content and length.                                      *)

\* One request of each kind, as the network sends it.
Requests ==
    {<<LINK_CHECK_ANS, 10, 1>>,
     <<LINK_ADR_REQ, 3 * 16 + 2, 3, 0, 2>>,
     <<DUTY_CYCLE_REQ, 3>>,
     <<RXPARRAM_SETUP_REQ, 1 * 16 + 3, 210, 173, 132>>,
     <<DEV_STATUS_REQ>>,
     <<NEW_CHANNEL_REQ, 3, 24, 79, 132, 5 * 16>>,
     <<RXTIMING_SETUP_REQ, 2>>,
     <<TXPARAM_SETUP_REQ, 5>>,
     <<DL_CHANNEL_REQ, 0, 24, 79, 132>>}

\* The streams parsed: buf is what nwk_payload holds and size is
\* nwk_payload_size.  A request cut short (the bytes after size are those an
\* earlier frame has left), one or two whole requests, two requests with an
\* identifier between them that the parser does not know, and streams of
\* 254 and 255 bytes made of one byte repeated.
ParseStreams ==
    {[buf |-> c, size |-> k, cut |-> k < Len(c)] : c \in Requests, k \in 1..6}
    \cup {[buf |-> c1 \o c2, size |-> Len(c1 \o c2), cut |-> FALSE] : c1, c2 \in Requests}
    \cup {[buf |-> c1 \o <<128>> \o c2, size |-> Len(c1 \o c2) + 1, cut |-> FALSE] :
              c1, c2 \in Requests}
    \cup {[buf |-> [i \in 1..255 |-> b], size |-> n, cut |-> FALSE] :
              b \in {DEV_STATUS_REQ, RXTIMING_SETUP_REQ}, n \in {254, 255}}
    \cup {[buf |-> <<>>, size |-> 0, cut |-> FALSE]}

\* The entry of lr1_stack_mac_cmd_parse on a joined session.
InitParse ==
    /\ \E stream \in {s \in ParseStreams : s.size <= Len(s.buf)} :
          /\ lr1_mac = [JoinedSession(1) EXCEPT !.nwk_payload = WrSeq(EmptyBuf, 0, stream.buf),
                                                !.nwk_payload_size = stream.size,
                                                !.nwk_payload_index = 0,
                                                !.nwk_ans_size = 0,
                                                !.tx_fopts_length = 0,
                                                !.tx_fopts_lengthsticky = 0]
          /\ sup = [stream |-> stream, parsing |-> TRUE, nb_cmd |-> 0]
    /\ rp_task = NoTask
    /\ now = 0
    /\ last = Done("cmd_parse", 0, "", FALSE, <<>>)

\* One test of the while condition of lr1_stack_mac_cmd_parse and, when it
\* holds, one turn of the loop; sup.nb_cmd counts the identifiers the switch
\* has known.
CmdParseIteration ==
    LET cmd_identifier == Rd(lr1_mac.nwk_payload, lr1_mac.nwk_payload_index)
        pre == Pre(lr1_mac, {"nwk_payload_index", "nwk_payload_size"})
    IN /\ sup.parsing
       /\ IF lr1_mac.nwk_payload_size > lr1_mac.nwk_payload_index
          THEN IF lr1_mac.tx_fopts_length > 200
               THEN /\ lr1_mac' = lr1_mac
                    /\ sup' = [sup EXCEPT !.parsing = FALSE]
                    /\ last' = Done("cmd_parse", cmd_identifier, "ERRORLORAWAN", FALSE, pre)
               ELSE /\ lr1_mac' = cmd_parse_switch(lr1_mac)
                    /\ sup' = [sup EXCEPT !.nb_cmd =
                                  IF lr1_mac'.nwk_payload_size = 0 THEN @ ELSE (@ + 1) % 256]
                    /\ last' = Done("cmd_parse_switch", cmd_identifier, "", FALSE, pre)
          ELSE /\ lr1_mac' = lr1_mac
               /\ sup' = [sup EXCEPT !.parsing = FALSE]
               /\ last' = Done("cmd_parse", 0, "OKLORAWAN", FALSE, pre)
       /\ UNCHANGED <<rp_task, now>>

\* The loop runs on as long as the call has not returned.
SpecParse ==
    /\ InitParse
    /\ [][CmdParseIteration]_vars
    /\ WF_<<sup.parsing, lr1_mac.nwk_payload_index, lr1_mac.nwk_payload_size>>(CmdParseIteration)

C38_CutRequestNotExecuted ==
    (sup.stream.cut /\ ~sup.parsing)
        => /\ lr1_mac.tx_fopts_length = 0
           /\ lr1_mac.tx_fopts_lengthsticky = 0
           /\ [lr1_mac EXCEPT !.nwk_payload_index = 0, !.nwk_payload_size = 0]
                 = [JoinedSession(1) EXCEPT !.nwk_payload = lr1_mac.nwk_payload,
                                            !.nwk_payload_index = 0,
                                            !.nwk_payload_size = 0]

---------------------------------------------------------------------------
(* The statistics of the radio planner (radio_planner_stats.h).  The       *)
(* object rp_stats_t is sup.rp_stats; every counter is a uint32_t.         *)

\* The number of hooks of the planner (radio_planner_types.h, not part of
\* the sources at hand).
RP_NB_HOOKS == 2

\* The number of rp_stats_update calls of a run.
MaxStatsUpdate == 2

\* (a + b) mod 2^32 of two uint32_t.
U32Add(a, b) ==
    U32((a.hi + b.hi + (a.lo + b.lo) \div 65536) % 65536, (a.lo + b.lo) % 65536)

\* The low 16 bits of the product of two 16-bit values.
Mul16(p, q) == (((p * (q \div 256)) % 256) * 256 + p * (q % 256)) % 65536

\* (a * b) mod 2^32 of two uint32_t.
U32Mul(a, b) ==
    LET x == a.lo * (b.lo \div 256)
        y == a.lo * (b.lo % 256)
        low == U32Add(U32(x \div 256, (x % 256) * 256), U32(y \div 65536, y % 65536))
    IN U32Add(low, U32((Mul16(a.hi, b.lo) + Mul16(a.lo, b.hi)) % 65536, 0))

\* a / k of a uint32_t and a divisor below 2^15.
U32Div(a, k) ==
    LET q == (a.hi \div k) * 65536 + ((a.hi % k) * 65536 + a.lo) \div k
    IN U32((q \div 65536) % 65536, q % 65536)

rp_stats_init(rp_stats) ==
    LET zero == [i \in 0..(RP_NB_HOOKS - 1) |-> U32(0, 0)]
    IN [tx_last_toa_ms |-> zero, tx_consumption_ms |-> zero, rx_consumption_ms |-> zero,
        tx_consumption_ma |-> zero, rx_consumption_ma |-> zero,
        task_hook_aborted_nb |-> zero,
        tx_total_consumption_ms |-> U32(0, 0), rx_total_consumption_ms |-> U32(0, 0),
        tx_total_consumption_ma |-> U32(0, 0), rx_total_consumption_ma |-> U32(0, 0),
        tx_timestamp |-> U32(0, 0), rx_timestamp |-> U32(0, 0), rp_error |-> U32(0, 0)]

rp_stats_set_tx_timestamp(rp_stats, timestamp) ==
    [rp_stats EXCEPT !.tx_timestamp = timestamp]

rp_stats_set_rx_timestamp(rp_stats, timestamp) ==
    [rp_stats EXCEPT !.rx_timestamp = timestamp]

\* rp_stats_update with the time of reception counted in the totals of the
\* transmission.
rp_stats_update_rx_in_tx_total(rp_stats, timestamp, hook_id, micro_ampere) ==
    LET tx_time == U32Diff(timestamp, rp_stats.tx_timestamp)
        tx_ma == U32Div(U32Mul(tx_time, micro_ampere), 1000)
        s1 == IF rp_stats.tx_timestamp # U32(0, 0)
              THEN [rp_stats EXCEPT !.tx_last_toa_ms[hook_id] = tx_time,
                                    !.tx_consumption_ms[hook_id] = U32Add(@, tx_time),
                                    !.tx_total_consumption_ms = U32Add(@, tx_time),
                                    !.tx_consumption_ma[hook_id] = U32Add(@, tx_ma),
                                    !.tx_total_consumption_ma = U32Add(@, tx_ma)]
              ELSE rp_stats
        rx_time == U32Diff(timestamp, s1.rx_timestamp)
        rx_ma == U32Div(U32Mul(rx_time, micro_ampere), 1000)
        s2 == IF s1.rx_timestamp # U32(0, 0)
              THEN [s1 EXCEPT !.rx_consumption_ms[hook_id] = U32Add(@, rx_time),
                              !.tx_total_consumption_ms = U32Add(@, rx_time),
                              !.rx_consumption_ma[hook_id] = U32Add(@, rx_ma),
                              !.tx_total_consumption_ma = U32Add(@, rx_ma)]
              ELSE s1
    IN [s2 EXCEPT !.tx_timestamp = U32(0, 0), !.rx_timestamp = U32(0, 0)]

rp_stats_update(rp_stats, timestamp, hook_id, micro_ampere) ==
    LET tx_time == U32Diff(timestamp, rp_stats.tx_timestamp)
        tx_ma == U32Div(U32Mul(tx_time, micro_ampere), 1000)
        s1 == IF rp_stats.tx_timestamp # U32(0, 0)
              THEN [rp_stats EXCEPT !.tx_last_toa_ms[hook_id] = tx_time,
                                    !.tx_consumption_ms[hook_id] = U32Add(@, tx_time),
                                    !.tx_total_consumption_ms = U32Add(@, tx_time),
                                    !.tx_consumption_ma[hook_id] = U32Add(@, tx_ma),
                                    !.tx_total_consumption_ma = U32Add(@, tx_ma)]
              ELSE rp_stats
        rx_time == U32Diff(timestamp, s1.rx_timestamp)
        rx_ma == U32Div(U32Mul(rx_time, micro_ampere), 1000)
        s2 == IF s1.rx_timestamp # U32(0, 0)
              THEN [s1 EXCEPT !.rx_consumption_ms[hook_id] = U32Add(@, rx_time),
                              !.rx_total_consumption_ms = U32Add(@, rx_time),
                              !.rx_consumption_ma[hook_id] = U32Add(@, rx_ma),
                              !.rx_total_consumption_ma = U32Add(@, rx_ma)]
              ELSE s1
    IN [s2 EXCEPT !.tx_timestamp = U32(0, 0), !.rx_timestamp = U32(0, 0)]

\* The object after rp_stats_init.
InitStats ==
    /\ sup = [rp_stats |-> rp_stats_init(<<>>), nb_update |-> 0]
    /\ lr1_mac = ZeroMac
    /\ rp_task = NoTask
    /\ now = 0
    /\ last = Done("rp_stats_init", <<>>, "", FALSE, rp_stats_init(<<>>))

\* A call of one function of radio_planner_stats.h: s is the object it
\* leaves, and `last` keeps the object it started from.
StatsCall(op, arg, s, updates) ==
    /\ sup.nb_update + updates <= MaxStatsUpdate
    /\ sup' = [rp_stats |-> s, nb_update |-> sup.nb_update + updates]
    /\ last' = Done(op, arg, "", FALSE, sup.rp_stats)
    /\ UNCHANGED <<lr1_mac, rp_task, now>>

\* The times the planner stamps a task with, and reads at its end; the
\* currents of the radio, in microamperes.
NextStats ==
    \/ StatsCall("rp_stats_init", <<>>, rp_stats_init(sup.rp_stats), 0)
    \/ \E timestamp \in {U32(0, 0), U32(0, 5), U32(65535, 65535)} :
          StatsCall("rp_stats_set_tx_timestamp", <<timestamp>>,
                    rp_stats_set_tx_timestamp(sup.rp_stats, timestamp), 0)
    \/ \E timestamp \in {U32(0, 0), U32(0, 5), U32(65535, 65535)} :
          StatsCall("rp_stats_set_rx_timestamp", <<timestamp>>,
                    rp_stats_set_rx_timestamp(sup.rp_stats, timestamp), 0)
    \/ \E timestamp \in {U32(0, 3), U32(0, 10)}, hook_id \in 0..(RP_NB_HOOKS - 1),
          micro_ampere \in {U32(0, 1000), U32(30, 33920)} :
          StatsCall("rp_stats_update", <<timestamp, hook_id, micro_ampere>>,
                    rp_stats_update(sup.rp_stats, timestamp, hook_id, micro_ampere), 1)

SpecStats == InitStats /\ [][NextStats]_vars

\* The sum modulo 2^32 of the first n counters of the array f.
RECURSIVE SumHooks(_, _)
SumHooks(f, n) == IF n = 0 THEN U32(0, 0) ELSE U32Add(SumHooks(f, n - 1), f[n - 1])

\* C40: after every call each of the four totals is the sum modulo 2^32 of
\* the counters of the hooks; rp_stats_update leaves both timestamps at 0, and
\* a rp_stats_update entered with both timestamps at 0 changes nothing.
C40_TotalsAreSums ==
    LET s == sup.rp_stats
    IN /\ s.tx_total_consumption_ms = SumHooks(s.tx_consumption_ms, RP_NB_HOOKS)
       /\ s.rx_total_consumption_ms = SumHooks(s.rx_consumption_ms, RP_NB_HOOKS)
       /\ s.tx_total_consumption_ma = SumHooks(s.tx_consumption_ma, RP_NB_HOOKS)
       /\ s.rx_total_consumption_ma = SumHooks(s.rx_consumption_ma, RP_NB_HOOKS)
       /\ last.op = "rp_stats_update"
             => /\ s.tx_timestamp = U32(0, 0)
                /\ s.rx_timestamp = U32(0, 0)
                /\ (last.pre.tx_timestamp = U32(0, 0) /\ last.pre.rx_timestamp = U32(0, 0))
                      => s = last.pre

\* C40: two updates, one for each hook, have counted a transmission and a
\* reception each, and the total of the transmission times has wrapped.
C40_Witness ==
    LET s == sup.rp_stats
    IN /\ last.op = "rp_stats_update"
       /\ last.pre.tx_timestamp # U32(0, 0)
       /\ last.pre.rx_timestamp # U32(0, 0)
       /\ s.tx_consumption_ms[0] # U32(0, 0)
       /\ s.tx_consumption_ms[1] # U32(0, 0)
       /\ U32Less(s.tx_total_consumption_ms, s.tx_consumption_ms[0])
       /\ s.rx_total_consumption_ma # U32(0, 0)
       /\ s.tx_total_consumption_ma # U32(0, 0)

===========================================================================
